---- MODULE Spec2Model ----
(***************************************************************************)
(* Build-specification resolver of slidie (src/slidie/builds.py).          *)
(*                                                                         *)
(* evaluate_build_steps is modelled as a state machine: one call is one    *)
(* behaviour, Init is the moment of the call with its argument layer_names *)
(* and every action is one statement (or one loop iteration) of the        *)
(* function and of the stage functions it calls.  Text is a sequence of    *)
(* one-character strings, so that parsing is computed, not assumed.        *)
(***************************************************************************)
EXTENDS Integers, Sequences, FiniteSets, TLC

VARIABLES
    layer_names,        \* the argument of evaluate_build_steps
    pc,                 \* position of the call
    input_layer_specs,  \* evaluate_build_steps: parsed spec (or None) per layer
    layer_tags,         \* evaluate_build_steps: label set per layer
    last_number,        \* resolve_autos: the carry
    s1_layer_specs,     \* resolve_autos: out, then the Stage 1 specs
    resolution_order,   \* resolve_tags: order returned by compute_tag_resolution_order
    resolution_count,   \* resolve_tags: number of layers of the order processed
    resolved_specs,     \* resolve_tags: {layer_index: resolved_steps}
    resolved_tags,      \* resolve_tags: {tag: combined steps}
    s2_layer_specs,     \* Stage 2 specs
    s3_layer_specs,     \* Stage 3 specs
    s4_layer_specs,     \* Stage 4 specs
    layer_specs,        \* normalised specs
    result,             \* the value returned
    exc,                \* the exception propagated (None when there is none)
    existing_numbers,   \* insert_number: argument, the numbers in use
    position,           \* insert_number: argument, where the new number goes
    allow_negative,     \* insert_number: argument
    preferred_step_size,\* insert_number: argument
    numbering_pc,       \* position of the insert_number call
    attempt,            \* insert_number: outcome of try_insert_number
    inserted_number,    \* insert_number: new_number, first component of the value returned
    renumberings,       \* insert_number: second component of the value returned
    files,              \* the number each existing file holds, in the initial order
    renamed,            \* how many renumberings have been performed
    collided            \* a renumbering took a number another file held

vars == <<layer_names, pc, input_layer_specs, layer_tags, last_number,
          s1_layer_specs, resolution_order, resolution_count, resolved_specs,
          resolved_tags,
          s2_layer_specs, s3_layer_specs, s4_layer_specs, layer_specs,
          result, exc,
          existing_numbers, position, allow_negative, preferred_step_size,
          numbering_pc, attempt, inserted_number, renumberings, files,
          renamed,
          collided>>

\* the variables of insert_number and of its caller
numbering_vars == <<existing_numbers, position, allow_negative,
                    preferred_step_size, numbering_pc, attempt, inserted_number,
                    renumberings, files, renamed, collided>>

\* the variables of evaluate_build_steps
builds_vars == <<layer_names, pc, input_layer_specs, layer_tags, last_number,
                 s1_layer_specs, resolution_order, resolution_count,
                 resolved_specs, resolved_tags,
                 s2_layer_specs, s3_layer_specs, s4_layer_specs, layer_specs,
                 result, exc>>

(***************************************************************************)
(* Python values                                                           *)
(***************************************************************************)
None == [type |-> "None"]
List(items) == [type |-> "list", items |-> items]
Tuple(items) == [type |-> "tuple", items |-> items]

Numeric(n) == [type |-> "int", value |-> n]
Plus == [type |-> "Plus"]
Dot == [type |-> "Dot"]
Start == [type |-> "Start"]
End == [type |-> "End"]
\* TagStep: a bare str, or a tuple (tag, suffix)
Tag(name) == [type |-> "str", name |-> name]
TagSuffix(name, suffix) == [type |-> "tuple", name |-> name, suffix |-> suffix]
Range(start, end) == [type |-> "Range", start |-> start, end |-> end]

InvalidStepError(step_str) == [type |-> "InvalidStepError", arg |-> step_str]
UnexpectedTagSuffixError(step_str) ==
    [type |-> "UnexpectedTagSuffixError", arg |-> step_str]
IdentifierNotFoundError(identifier, layer_index, layer_name) ==
    [type |-> "IdentifierNotFoundError", identifier |-> identifier,
     layer_index |-> layer_index, layer_name |-> layer_name]
CyclicDependencyError(layer_indices, names) ==
    [type |-> "CyclicDependencyError", layer_indices |-> layer_indices,
     layer_names |-> names]

IsParseError(v) == v.type \in {"InvalidStepError", "UnexpectedTagSuffixError"}

(***************************************************************************)
(* Text helpers: str.strip, str.partition, str.split, int()                *)
(***************************************************************************)
WhiteSpace == {" ", "\t", "\n"}
Digits == {"0", "1", "2", "3", "4", "5", "6", "7", "8", "9"}

MinOf(S) == CHOOSE x \in S : \A y \in S : x <= y
MaxOf(S) == CHOOSE x \in S : \A y \in S : y <= x

DigitValue(c) ==
    CASE c = "0" -> 0 [] c = "1" -> 1 [] c = "2" -> 2 [] c = "3" -> 3
      [] c = "4" -> 4 [] c = "5" -> 5 [] c = "6" -> 6 [] c = "7" -> 7
      [] c = "8" -> 8 [] c = "9" -> 9

RECURSIVE int(_)
int(s) == IF s = <<>> THEN 0
          ELSE 10 * int(SubSeq(s, 1, Len(s) - 1)) + DigitValue(s[Len(s)])

RECURSIVE lstrip(_)
lstrip(s) == IF s # <<>> /\ Head(s) \in WhiteSpace THEN lstrip(Tail(s)) ELSE s

RECURSIVE rstrip(_)
rstrip(s) == IF s # <<>> /\ s[Len(s)] \in WhiteSpace
             THEN rstrip(SubSeq(s, 1, Len(s) - 1)) ELSE s

strip(s) == rstrip(lstrip(s))

\* index of the first c in s at or after position from; 0 when there is none
find(s, c, from) ==
    LET idx == {i \in from..Len(s) : s[i] = c}
    IN  IF idx = {} THEN 0 ELSE MinOf(idx)

partition(s, c) ==
    LET i == find(s, c, 1)
    IN  IF i = 0 THEN <<s, <<>>, <<>>>>
        ELSE <<SubSeq(s, 1, i - 1), <<c>>, SubSeq(s, i + 1, Len(s))>>

RECURSIVE split(_, _)
split(s, c) ==
    LET i == find(s, c, 1)
    IN  IF i = 0 THEN <<s>>
        ELSE <<SubSeq(s, 1, i - 1)>> \o split(SubSeq(s, i + 1, Len(s)), c)

(***************************************************************************)
(* Layer name parsing routines                                             *)
(***************************************************************************)
SuffixBefore == <<"b", "e", "f", "o", "r", "e">>
SuffixStart == <<"s", "t", "a", "r", "t">>
SuffixEnd == <<"e", "n", "d">>
SuffixAfter == <<"a", "f", "t", "e", "r">>
Suffixes == {SuffixBefore, SuffixStart, SuffixEnd, SuffixAfter}

\* re.fullmatch(r"@[^\s]+", step_str)
IsTagReference(step_str) ==
    /\ Len(step_str) >= 2
    /\ step_str[1] = "@"
    /\ \A i \in 2..Len(step_str) : step_str[i] \notin WhiteSpace

\* re.fullmatch(r"[0-9]+", step_str)
IsInteger(step_str) ==
    /\ step_str # <<>>
    /\ \A i \in 1..Len(step_str) : step_str[i] \in Digits

\* Returns the atom, or the exception raised.  empty_value is None, Start or End.
parse_build_specification_step(step_str0, empty_value) ==
    LET step_str == strip(step_str0)
    IN  IF IsTagReference(step_str)
        THEN LET p == partition(Tail(step_str), ".")
             IN  IF p[2] # <<>>
                 THEN IF p[3] \notin Suffixes
                      THEN UnexpectedTagSuffixError(step_str)
                      ELSE TagSuffix(p[1], p[3])
                 ELSE Tag(p[1])
        ELSE IF step_str = <<"+">> THEN Plus
        ELSE IF step_str = <<".">> THEN Dot
        ELSE IF step_str = <<>> /\ empty_value # None THEN empty_value
        ELSE IF IsInteger(step_str) THEN Numeric(int(step_str))
        ELSE InvalidStepError(step_str)

\* re.findall(r"<[^>]*>", layer_name): the matches, leftmost first
RECURSIVE findall_build_specifications(_)
findall_build_specifications(layer_name) ==
    LET i == find(layer_name, "<", 1)
        j == IF i = 0 THEN 0 ELSE find(layer_name, ">", i + 1)
    IN  IF j = 0 THEN <<>>
        ELSE <<SubSeq(layer_name, i, j)>>
             \o findall_build_specifications(SubSeq(layer_name, j + 1, Len(layer_name)))

\* Mutant of parse_step_or_range: the piece is split at its last "-"
parse_step_or_range_last_dash(step_or_range_str) ==
    LET dashes == {k \in 1..Len(step_or_range_str) : step_or_range_str[k] = "-"}
        start == parse_build_specification_step(
                     SubSeq(step_or_range_str, 1, MaxOf(dashes) - 1), Start)
        end == parse_build_specification_step(
                   SubSeq(step_or_range_str, MaxOf(dashes) + 1,
                          Len(step_or_range_str)), End)
    IN  IF dashes = {}
        THEN parse_build_specification_step(step_or_range_str, None)
        ELSE IF IsParseError(start) THEN start
        ELSE IF IsParseError(end) THEN end
        ELSE Range(start, end)

\* One comma separated piece: the step appended, or the exception raised
parse_step_or_range(step_or_range_str) ==
    IF find(step_or_range_str, "-", 1) # 0
    THEN LET p == partition(step_or_range_str, "-")
             start == parse_build_specification_step(p[1], Start)
             end == parse_build_specification_step(p[3], End)
         IN  IF IsParseError(start) THEN start
             ELSE IF IsParseError(end) THEN end
             ELSE Range(start, end)
    ELSE parse_build_specification_step(step_or_range_str, None)

\* The steps of one "<...>" match (a sequence that may hold an exception)
parse_match(match) ==
    LET steps_str == strip(SubSeq(match, 2, Len(match) - 1))
        pieces == split(steps_str, ",")
    IN  IF steps_str = <<>> THEN <<>>
        ELSE [k \in 1..Len(pieces) |-> parse_step_or_range(pieces[k])]

RECURSIVE Concat(_)
Concat(seqs) == IF seqs = <<>> THEN <<>> ELSE Head(seqs) \o Concat(Tail(seqs))

\* None, List(steps), or the first exception raised
parse_build_specification(layer_name) ==
    LET matches == findall_build_specifications(layer_name)
        steps == Concat([k \in 1..Len(matches) |-> parse_match(matches[k])])
        errors == {k \in 1..Len(steps) : IsParseError(steps[k])}
    IN  IF errors # {} THEN steps[MinOf(errors)]
        ELSE IF matches # <<>> THEN List(steps)
        ELSE None

\* re.sub(r"<[^>]+>", "", layer_name)
RECURSIVE remove_build_specifications(_)
remove_build_specifications(layer_name) ==
    LET i == find(layer_name, "<", 1)
        j == IF i = 0 THEN 0 ELSE find(layer_name, ">", i + 1)
    IN  IF j = 0 THEN layer_name
        ELSE IF j = i + 1
        THEN SubSeq(layer_name, 1, i)
             \o remove_build_specifications(SubSeq(layer_name, i + 1, Len(layer_name)))
        ELSE SubSeq(layer_name, 1, i - 1)
             \o remove_build_specifications(SubSeq(layer_name, j + 1, Len(layer_name)))

TagNameStop == WhiteSpace \cup {"<", ">", ".", "@"}

\* re.findall(r"@([^\s<>.@]+)(?=\s|@|$)", text) as a set
RECURSIVE findall_tags(_)
findall_tags(text) ==
    LET i == find(text, "@", 1)
        stops == {k \in (i + 1)..Len(text) : text[k] \in TagNameStop}
        q == IF stops = {} THEN Len(text) + 1 ELSE MinOf(stops)
        matched == /\ q > i + 1
                   /\ (q = Len(text) + 1 \/ text[q] \in WhiteSpace \cup {"@"})
    IN  IF i = 0 THEN {}
        ELSE IF matched
        THEN {SubSeq(text, i + 1, q - 1)}
             \cup findall_tags(SubSeq(text, q, Len(text)))
        ELSE findall_tags(SubSeq(text, i + 1, Len(text)))

parse_tags(layer_name) == findall_tags(remove_build_specifications(layer_name))

(***************************************************************************)
(* Stage 1: Resolving automatically numbered steps (autos)                 *)
(***************************************************************************)
\* Mutant of resolve_step_auto: "." numbers like "+"
RECURSIVE resolve_step_auto_dot_as_plus(_, _)
resolve_step_auto_dot_as_plus(step, number) ==
    CASE step.type = "Plus" -> Numeric(number + 1)
      [] step.type = "Dot" -> Numeric(number + 1)
      [] step.type = "Range" ->
            Range(resolve_step_auto_dot_as_plus(step.start, number),
                  resolve_step_auto_dot_as_plus(step.end, number))
      [] OTHER -> step

\* Mutant of resolve_step_auto: . is the number before the carry
RECURSIVE resolve_step_auto_dot_steps_back(_, _)
resolve_step_auto_dot_steps_back(step, number) ==
    CASE step.type = "Plus" -> Numeric(number + 1)
      [] step.type = "Dot" -> Numeric(number - 1)
      [] step.type = "Range" ->
            Range(resolve_step_auto_dot_steps_back(step.start, number),
                  resolve_step_auto_dot_steps_back(step.end, number))
      [] OTHER -> step

RECURSIVE resolve_step_auto(_, _)
resolve_step_auto(step, number) ==
    CASE step.type = "Plus" -> Numeric(number + 1)
      [] step.type = "Dot" -> Numeric(number)
      [] step.type = "Range" ->
            Range(resolve_step_auto(step.start, number),
                  resolve_step_auto(step.end, number))
      [] OTHER -> step

\* Mutant of get_first_numeric_step: the end of a range is never looked at
RECURSIVE get_first_numeric_step_no_range_end(_)
get_first_numeric_step_no_range_end(steps) ==
    IF steps = <<>> THEN None
    ELSE LET step == Head(steps)
         IN  CASE step.type = "int" -> step
               [] step.type = "Range" /\ step.start.type = "int" -> step.start
               [] OTHER -> get_first_numeric_step_no_range_end(Tail(steps))

\* The first numbered step as Numeric(n), or None
RECURSIVE get_first_numeric_step(_)
get_first_numeric_step(steps) ==
    IF steps = <<>> THEN None
    ELSE LET step == Head(steps)
         IN  CASE step.type = "int" -> step
               [] step.type = "Range" /\ step.start.type = "int" -> step.start
               [] step.type = "Range" /\ step.end.type = "int" -> step.end
               [] OTHER -> get_first_numeric_step(Tail(steps))

(***************************************************************************)
(* Stage 2: Resolving tag references                                       *)
(***************************************************************************)
\* Mutant of iter_referenced_tags: the ends of a range are not searched
RECURSIVE iter_referenced_tags_top_level(_)
iter_referenced_tags_top_level(steps) ==
    IF steps = <<>> THEN <<>>
    ELSE (IF Head(steps).type \in {"str", "tuple"}
          THEN <<Head(steps).name>> ELSE <<>>)
         \o iter_referenced_tags_top_level(Tail(steps))

\* The tag names yielded, in order
RECURSIVE iter_referenced_tags(_)
iter_referenced_tags(steps) ==
    IF steps = <<>> THEN <<>>
    ELSE LET step == Head(steps)
             here == CASE step.type = "str" -> <<step.name>>
                       [] step.type = "tuple" -> <<step.name>>
                       [] step.type = "Range" ->
                             iter_referenced_tags(<<step.start, step.end>>)
                       [] OTHER -> <<>>
         IN  here \o iter_referenced_tags(Tail(steps))

SetOf(seq) == {seq[k] : k \in 1..Len(seq)}

\* The elements of a set of integers in ascending order (the order in which
\* CPython iterates over a set of small non-negative integers)
RECURSIVE Sorted(_)
Sorted(S) == IF S = {} THEN <<>>
             ELSE LET m == MinOf(S) IN <<m>> \o Sorted(S \ {m})

\* Layer indices are counted from 0, as in the source
At(seq, index) == seq[index + 1]
Indices(seq) == 0..(Len(seq) - 1)

tag_to_indices(layer_tags_and_dependencies) ==
    [tag \in UNION {At(layer_tags_and_dependencies, i)[1] :
                        i \in Indices(layer_tags_and_dependencies)} |->
        {i \in Indices(layer_tags_and_dependencies) :
            tag \in At(layer_tags_and_dependencies, i)[1]}]

\* The dependencies of layer i which no layer carries
missing_dependencies(layer_tags_and_dependencies, i) ==
    {dep \in At(layer_tags_and_dependencies, i)[2] :
        dep \notin DOMAIN tag_to_indices(layer_tags_and_dependencies)}

\* Mutant of index_to_deps: a layer is never its own dependency
index_to_deps_without_self(layer_tags_and_dependencies) ==
    [i \in Indices(layer_tags_and_dependencies) |->
        UNION {tag_to_indices(layer_tags_and_dependencies)[dep] :
                 dep \in At(layer_tags_and_dependencies, i)[2]
                         \ missing_dependencies(layer_tags_and_dependencies, i)}
        \ {i}]

index_to_deps(layer_tags_and_dependencies) ==
    [i \in Indices(layer_tags_and_dependencies) |->
        UNION {tag_to_indices(layer_tags_and_dependencies)[dep] :
                 dep \in At(layer_tags_and_dependencies, i)[2]
                         \ missing_dependencies(layer_tags_and_dependencies, i)}]

\* The inner function resolve: List(ordering) as extended by the call, or the
\* CyclicDependencyError raised
RECURSIVE resolve(_, _, _, _)
RECURSIVE resolve_dependencies(_, _, _, _)
\* Mutant of resolve: the layer is appended before its dependencies are
\* processed
resolve_before_dependencies(index, visited_indices, ordering, deps) ==
    IF index \in SetOf(ordering) THEN List(ordering)
    ELSE IF index \in SetOf(visited_indices)
    THEN LET first == MinOf({k \in 1..Len(visited_indices) :
                                visited_indices[k] = index})
         IN  CyclicDependencyError(
                 SubSeq(visited_indices, first, Len(visited_indices))
                     \o <<index>>, None)
    ELSE resolve_dependencies(Sorted(deps[index]),
                              visited_indices \o <<index>>,
                              ordering \o <<index>>, deps)

\* Mutant of resolve: the whole path walked is reported, not the loop alone
resolve_whole_path(index, visited_indices, ordering, deps) ==
    IF index \in SetOf(ordering) THEN List(ordering)
    ELSE IF index \in SetOf(visited_indices)
    THEN CyclicDependencyError(visited_indices \o <<index>>, None)
    ELSE LET r == resolve_dependencies(Sorted(deps[index]),
                                       visited_indices \o <<index>>,
                                       ordering, deps)
         IN  IF r.type = "CyclicDependencyError" THEN r
             ELSE List(r.items \o <<index>>)

resolve(index, visited_indices, ordering, deps) ==
    IF index \in SetOf(ordering) THEN List(ordering)
    ELSE IF index \in SetOf(visited_indices)
    THEN LET first == MinOf({k \in 1..Len(visited_indices) :
                                visited_indices[k] = index})
         IN  CyclicDependencyError(
                 SubSeq(visited_indices, first, Len(visited_indices))
                     \o <<index>>, None)
    ELSE LET r == resolve_dependencies(Sorted(deps[index]),
                                       visited_indices \o <<index>>,
                                       ordering, deps)
         IN  IF r.type = "CyclicDependencyError" THEN r
             ELSE List(r.items \o <<index>>)

\* for dep_index in index_to_deps[index]: resolve(dep_index, ...)
resolve_dependencies(dep_indices, visited_indices, ordering, deps) ==
    IF dep_indices = <<>> THEN List(ordering)
    ELSE LET r == resolve(Head(dep_indices), visited_indices, ordering, deps)
         IN  IF r.type = "CyclicDependencyError" THEN r
             ELSE resolve_dependencies(Tail(dep_indices), visited_indices,
                                       r.items, deps)

\* for i in range(len(...)): resolve(i, [])
RECURSIVE resolve_all(_, _, _)
resolve_all(indices, ordering, deps) ==
    IF indices = <<>> THEN List(ordering)
    ELSE LET r == resolve(Head(indices), <<>>, ordering, deps)
         IN  IF r.type = "CyclicDependencyError" THEN r
             ELSE resolve_all(Tail(indices), r.items, deps)

\* The set of outcomes: List(ordering), or the exceptions that may be raised
\* (which missing dependency of a layer is met first depends on the iteration
\* order of a set of strings)
compute_tag_resolution_order(layer_tags_and_dependencies) ==
    LET offending == {i \in Indices(layer_tags_and_dependencies) :
                        missing_dependencies(layer_tags_and_dependencies, i) # {}}
    IN  IF offending # {}
        THEN {IdentifierNotFoundError(dep, MinOf(offending), None) :
                dep \in missing_dependencies(layer_tags_and_dependencies,
                                             MinOf(offending))}
        ELSE {resolve_all(Sorted(Indices(layer_tags_and_dependencies)), <<>>,
                          index_to_deps(layer_tags_and_dependencies))}

\* item < best, as Start.__lt__, End.__gt__ and total_ordering define it
atom_lt(a, b) ==
    CASE a.type = "Start" -> b.type # "Start"
      [] a.type = "End" -> FALSE
      [] b.type = "Start" -> FALSE
      [] b.type = "End" -> TRUE
      [] OTHER -> a.value < b.value

\* item > best
atom_gt(a, b) ==
    CASE a.type = "End" -> b.type # "End"
      [] a.type = "Start" -> FALSE
      [] b.type = "End" -> FALSE
      [] b.type = "Start" -> TRUE
      [] OTHER -> a.value > b.value

RECURSIVE min_from(_, _)
min_from(best, items) ==
    IF items = <<>> THEN best
    ELSE min_from(IF atom_lt(Head(items), best) THEN Head(items) ELSE best,
                  Tail(items))

\* Mutant of min: the first item, whatever the others
min_is_first(items) == items[1]

min(items) == min_from(Head(items), Tail(items))

RECURSIVE max_from(_, _)
max_from(best, items) ==
    IF items = <<>> THEN best
    ELSE max_from(IF atom_gt(Head(items), best) THEN Head(items) ELSE best,
                  Tail(items))
max(items) == max_from(Head(items), Tail(items))

\* The atoms of a spec, ranges replaced by their start and end
RECURSIVE flatten(_)
flatten(spec) ==
    IF spec = <<>> THEN <<>>
    ELSE (IF Head(spec).type = "Range"
          THEN <<Head(spec).start, Head(spec).end>>
          ELSE <<Head(spec)>>) \o flatten(Tail(spec))

\* Mutant of resolve_tag_suffix: a range counts by its start alone
resolve_tag_suffix_range_starts(referenced_spec, suffix) ==
    LET flat_spec == [k \in 1..Len(referenced_spec) |->
                         IF referenced_spec[k].type = "Range"
                         THEN referenced_spec[k].start ELSE referenced_spec[k]]
        lo == min(flat_spec)
        hi == max(flat_spec)
    IN  IF Len(referenced_spec) = 0 THEN None
        ELSE CASE suffix = SuffixStart -> lo
               [] suffix = SuffixEnd -> hi
               [] suffix = SuffixBefore ->
                     IF lo.type = "int" THEN Numeric(lo.value - 1) ELSE lo
               [] suffix = SuffixAfter ->
                     IF hi.type = "int" THEN Numeric(hi.value + 1) ELSE hi

\* Mutant of resolve_tag_suffix: an empty referenced spec gives Start
resolve_tag_suffix_empty_is_start(referenced_spec, suffix) ==
    LET flat_spec == flatten(referenced_spec)
        lo == min(flat_spec)
        hi == max(flat_spec)
    IN  IF Len(referenced_spec) = 0 THEN Start
        ELSE CASE suffix = SuffixStart -> lo
               [] suffix = SuffixEnd -> hi
               [] suffix = SuffixBefore ->
                     IF lo.type = "int" THEN Numeric(lo.value - 1) ELSE lo
               [] suffix = SuffixAfter ->
                     IF hi.type = "int" THEN Numeric(hi.value + 1) ELSE hi

\* The atom, or None when the referenced spec is empty
resolve_tag_suffix(referenced_spec, suffix) ==
    LET flat_spec == flatten(referenced_spec)
        lo == min(flat_spec)
        hi == max(flat_spec)
    IN  IF Len(referenced_spec) = 0 THEN None
        ELSE CASE suffix = SuffixStart -> lo
               [] suffix = SuffixEnd -> hi
               [] suffix = SuffixBefore ->
                     IF lo.type = "int" THEN Numeric(lo.value - 1) ELSE lo
               [] suffix = SuffixAfter ->
                     IF hi.type = "int" THEN Numeric(hi.value + 1) ELSE hi

\* resolved_tags is a defaultdict(list)
Lookup(tags, name) == IF name \in DOMAIN tags THEN tags[name] ELSE <<>>

\* Mutant of resolve_step_tag: both ends of a range imply .start
resolve_step_tag_implies_start(step0, tags, default_suffix) ==
    LET suffixed(name, suffix) ==
            LET new_step == resolve_tag_suffix(Lookup(tags, name), suffix)
            IN  IF new_step # None THEN <<new_step>> ELSE <<>>
        side(atom) ==
            CASE atom.type = "str" -> suffixed(atom.name, SuffixStart)
              [] atom.type = "tuple" -> suffixed(atom.name, atom.suffix)
              [] OTHER -> <<atom>>
    IN  CASE step0.type = "str" -> Lookup(tags, step0.name)
          [] step0.type = "tuple" -> suffixed(step0.name, step0.suffix)
          [] step0.type = "Range" ->
                IF side(step0.start) # <<>> /\ side(step0.end) # <<>>
                THEN <<Range(side(step0.start)[1], side(step0.end)[1])>>
                ELSE <<>>
          [] OTHER -> <<step0>>

\* The sequence of steps the step resolves to; default_suffix is None or a suffix
RECURSIVE resolve_step_tag(_, _, _)
resolve_step_tag(step0, tags, default_suffix) ==
    LET step == IF default_suffix # None /\ step0.type = "str"
                THEN TagSuffix(step0.name, default_suffix.suffix) ELSE step0
    IN  CASE step.type = "str" -> Lookup(tags, step.name)
          [] step.type = "tuple" ->
                LET new_step == resolve_tag_suffix(Lookup(tags, step.name),
                                                   step.suffix)
                IN  IF new_step # None THEN <<new_step>> ELSE <<>>
          [] step.type = "Range" ->
                LET new_start == resolve_step_tag(step.start, tags,
                                                  [suffix |-> SuffixStart])
                    new_end == resolve_step_tag(step.end, tags,
                                                [suffix |-> SuffixEnd])
                IN  IF new_start # <<>> /\ new_end # <<>>
                    THEN <<Range(new_start[1], new_end[1])>>
                    ELSE <<>>
          [] OTHER -> <<step>>

\* [new_step for step in spec for new_step in resolve_step_tag(step, tags)]
resolve_spec_tags(spec, tags) ==
    Concat([k \in 1..Len(spec) |-> resolve_step_tag(spec[k], tags, None)])

\* Mutant of extend_tags: the pool is assigned, not extended
extend_tags_assigns(tags, names, new_spec) ==
    [name \in DOMAIN tags \cup names |->
        IF name \in names THEN new_spec ELSE Lookup(tags, name)]

\* for name in layer_tags[index]: resolved_tags[name].extend(new_spec)
extend_tags(tags, names, new_spec) ==
    [name \in DOMAIN tags \cup names |->
        Lookup(tags, name) \o (IF name \in names THEN new_spec ELSE <<>>)]

(***************************************************************************)
(* Stage 3: Resolving bounds                                               *)
(***************************************************************************)
\* Mutant of resolve_step_bound: the ends of a range are left as they are
resolve_step_bound_top_level(step, resolved_start, resolved_end) ==
    CASE step.type = "Start" -> Numeric(resolved_start)
      [] step.type = "End" -> Numeric(resolved_end)
      [] OTHER -> step

RECURSIVE resolve_step_bound(_, _, _)
resolve_step_bound(step, resolved_start, resolved_end) ==
    CASE step.type = "Start" -> Numeric(resolved_start)
      [] step.type = "End" -> Numeric(resolved_end)
      [] step.type = "Range" ->
            Range(resolve_step_bound(step.start, resolved_start, resolved_end),
                  resolve_step_bound(step.end, resolved_start, resolved_end))
      [] OTHER -> step

\* Mutant of all_numeric_atoms: the ends of ranges are left out
all_numeric_atoms_top_level(specs) ==
    {0} \cup {atom.value : atom \in
                {a \in UNION {SetOf(specs[i]) : i \in 1..Len(specs)} :
                    a.type = "int"}}

\* Mutant of all_numeric_atoms: only the starts of ranges are collected
all_numeric_atoms_range_starts(specs) ==
    {0} \cup {atom.value : atom \in
                {a \in UNION {{IF specs[i][k].type = "Range"
                                THEN specs[i][k].start ELSE specs[i][k] :
                                    k \in 1..Len(specs[i])} :
                                  i \in 1..Len(specs)} :
                    a.type \notin {"Start", "End"}}}

\* [0] + [every atom of every spec that is not Start or End], as a set
all_numeric_atoms(specs) ==
    {0} \cup {atom.value : atom \in
                {a \in UNION {SetOf(flatten(specs[i])) : i \in 1..Len(specs)} :
                    a.type \notin {"Start", "End"}}}

resolve_bounds(specs) ==
    LET start == MinOf(all_numeric_atoms(specs))
        end == MaxOf(all_numeric_atoms(specs))
    IN  [i \in 1..Len(specs) |->
            [k \in 1..Len(specs[i]) |->
                resolve_step_bound(specs[i][k], start, end)]]

(***************************************************************************)
(* Stage 4: Resolve ranges                                                 *)
(***************************************************************************)
\* Mutant of range: a reversed range counts like the range put right
range_either_way(start, stop) ==
    IF stop > start THEN [k \in 1..(stop - start) |-> start + k - 1]
    ELSE [k \in 1..(start - stop + 2) |-> stop + k - 2]

\* range(start, stop)
range(start, stop) ==
    IF stop > start THEN [k \in 1..(stop - start) |-> start + k - 1] ELSE <<>>

resolve_ranges(specs) ==
    [i \in 1..Len(specs) |->
        Concat([k \in 1..Len(specs[i]) |->
                  IF specs[i][k].type = "Range"
                  THEN range(specs[i][k].start.value, specs[i][k].end.value + 1)
                  ELSE <<specs[i][k].value>>])]

(***************************************************************************)
(* Top-level interface                                                     *)
(***************************************************************************)
\* Mutant of normalise_specs: the steps are sorted the other way
normalise_specs_descending(specs) ==
    [i \in 1..Len(specs) |->
        LET steps == Sorted(SetOf(specs[i]))
        IN  [k \in 1..Len(steps) |-> steps[Len(steps) + 1 - k]]]

\* Mutant of normalise_specs: the steps are returned as expanded
normalise_specs_as_expanded(specs) == specs

\* Mutant of normalise_specs: the smallest step is dropped
normalise_specs_without_first(specs) ==
    [i \in 1..Len(specs) |->
        IF specs[i] = <<>> THEN <<>> ELSE Tail(Sorted(SetOf(specs[i])))]

normalise_specs(specs) ==
    [i \in 1..Len(specs) |-> Sorted(SetOf(specs[i]))]

\* Mutant of effective_spec: a layer without a spec is never visible
effective_spec_empty(spec) ==
    IF spec # None THEN spec.items ELSE <<>>

\* spec if spec is not None else [Range(Start(), End())]
effective_spec(spec) ==
    IF spec # None THEN spec.items ELSE <<Range(Start, End)>>

\* Mutant of returned_layers: None is not restored
returned_layers_all_lists(input_specs, specs) ==
    [i \in 1..Len(input_specs) |-> List(specs[i])]

\* The list returned: spec if input_spec is not None else None
returned_layers(input_specs, specs) ==
    [i \in 1..Len(input_specs) |->
        IF input_specs[i] # None THEN List(specs[i]) ELSE None]

(***************************************************************************)
(* The call evaluate_build_steps(layer_names)                              *)
(***************************************************************************)
\* Mutant of parsed_specs: a layer name that does not parse has no spec
parsed_specs_skipping_errors ==
    [i \in 1..Len(layer_names) |->
        LET spec == parse_build_specification(layer_names[i])
        IN  IF IsParseError(spec) THEN None ELSE spec]

parsed_specs == [i \in 1..Len(layer_names) |->
                    parse_build_specification(layer_names[i])]

\* input_layer_specs = [parse_build_specification(name) for name in layer_names]
ParseBuildSpecifications ==
    /\ pc = "parse_build_specification"
    /\ \A i \in 1..Len(layer_names) : ~IsParseError(parsed_specs[i])
    /\ input_layer_specs' = parsed_specs
    /\ pc' = "parse_tags"
    /\ UNCHANGED numbering_vars
    /\ UNCHANGED <<layer_names, layer_tags, last_number, s1_layer_specs,
                   resolution_order, resolution_count, resolved_specs,
                   resolved_tags, s2_layer_specs, s3_layer_specs,
                   s4_layer_specs, layer_specs, result, exc>>

\* ... the same statement when a layer name does not parse: the exception of
\* the first such layer leaves evaluate_build_steps
RaiseLayerNameParseError ==
    /\ pc = "parse_build_specification"
    /\ \E i \in 1..Len(layer_names) :
          /\ IsParseError(parsed_specs[i])
          /\ \A j \in 1..(i - 1) : ~IsParseError(parsed_specs[j])
          /\ exc' = parsed_specs[i]
    /\ pc' = "raised"
    /\ UNCHANGED numbering_vars
    /\ UNCHANGED <<layer_names, input_layer_specs, layer_tags, last_number,
                   s1_layer_specs, resolution_order, resolution_count,
                   resolved_specs, resolved_tags, s2_layer_specs,
                   s3_layer_specs, s4_layer_specs, layer_specs, result>>

\* layer_tags = [parse_tags(name) for name in layer_names]
ParseTags ==
    /\ pc = "parse_tags"
    /\ layer_tags' = [i \in 1..Len(layer_names) |-> parse_tags(layer_names[i])]
    /\ pc' = "resolve_autos"
    /\ UNCHANGED numbering_vars
    /\ UNCHANGED <<layer_names, input_layer_specs, last_number, s1_layer_specs,
                   resolution_order, resolution_count, resolved_specs,
                   resolved_tags, s2_layer_specs, s3_layer_specs,
                   s4_layer_specs, layer_specs, result, exc>>

\* resolve_autos: one iteration of "for spec in layer_specs"
ResolveAutosStep ==
    /\ pc = "resolve_autos"
    /\ Len(s1_layer_specs) < Len(input_layer_specs)
    /\ LET spec == effective_spec(input_layer_specs[Len(s1_layer_specs) + 1])
           new_spec == [k \in 1..Len(spec) |->
                           resolve_step_auto(spec[k], last_number)]
           new_number == get_first_numeric_step(new_spec)
       IN  /\ s1_layer_specs' = Append(s1_layer_specs, new_spec)
           /\ last_number' = IF new_number # None THEN new_number.value
                             ELSE last_number
    /\ UNCHANGED numbering_vars
    /\ UNCHANGED <<layer_names, pc, input_layer_specs, layer_tags,
                   resolution_order, resolution_count, resolved_specs,
                   resolved_tags, s2_layer_specs, s3_layer_specs,
                   s4_layer_specs, layer_specs, result, exc>>

\* resolve_autos: return out
ResolveAutosReturn ==
    /\ pc = "resolve_autos"
    /\ Len(s1_layer_specs) = Len(input_layer_specs)
    /\ pc' = "resolve_tags"
    /\ UNCHANGED numbering_vars
    /\ UNCHANGED <<layer_names, input_layer_specs, layer_tags, last_number,
                   s1_layer_specs, resolution_order, resolution_count,
                   resolved_specs, resolved_tags, s2_layer_specs,
                   s3_layer_specs, s4_layer_specs, layer_specs, result, exc>>

\* layer_dependencies = [set(iter_referenced_tags(spec)) for spec in layer_specs]
layer_dependencies(specs) ==
    [i \in 1..Len(specs) |-> SetOf(iter_referenced_tags(specs[i]))]

\* The outcomes of compute_tag_resolution_order(list(zip(layer_tags, layer_dependencies)))
resolution_outcomes ==
    compute_tag_resolution_order(
        [i \in 1..Len(layer_tags) |->
            <<layer_tags[i], layer_dependencies(s1_layer_specs)[i]>>])

\* resolve_tags: the resolution order is computed
ComputeTagResolutionOrder ==
    /\ pc = "resolve_tags"
    /\ \E outcome \in resolution_outcomes :
          /\ outcome.type = "list"
          /\ resolution_order' = outcome.items
    /\ pc' = "resolve_tags_loop"
    /\ UNCHANGED numbering_vars
    /\ UNCHANGED <<layer_names, input_layer_specs, layer_tags, last_number,
                   s1_layer_specs, resolution_count, resolved_specs,
                   resolved_tags, s2_layer_specs, s3_layer_specs,
                   s4_layer_specs, layer_specs, result, exc>>

\* compute_tag_resolution_order raises IdentifierNotFoundError; "except
\* IdentifierNotFoundError" fills in the layer name and raises again
RaiseIdentifierNotFoundError ==
    /\ pc = "resolve_tags"
    /\ \E outcome \in resolution_outcomes :
          /\ outcome.type = "IdentifierNotFoundError"
          /\ exc' = [outcome EXCEPT
                        !.layer_name = At(layer_names, outcome.layer_index)]
    /\ pc' = "raised"
    /\ UNCHANGED numbering_vars
    /\ UNCHANGED <<layer_names, input_layer_specs, layer_tags, last_number,
                   s1_layer_specs, resolution_order, resolution_count,
                   resolved_specs, resolved_tags, s2_layer_specs,
                   s3_layer_specs, s4_layer_specs, layer_specs, result>>

\* Mutant of names_of_layers: the layer closing the cycle is named once
names_of_layers_once(layer_indices) ==
    [k \in 1..(Len(layer_indices) - 1) |-> At(layer_names, layer_indices[k])]

\* [layer_names[i] for i in exc.layer_indices]
names_of_layers(layer_indices) ==
    [k \in 1..Len(layer_indices) |-> At(layer_names, layer_indices[k])]

\* compute_tag_resolution_order raises CyclicDependencyError; "except
\* CyclicDependencyError" fills in the layer names and raises again
RaiseCyclicDependencyError ==
    /\ pc = "resolve_tags"
    /\ \E outcome \in resolution_outcomes :
          /\ outcome.type = "CyclicDependencyError"
          /\ exc' = [outcome EXCEPT
                        !.layer_names = names_of_layers(outcome.layer_indices)]
    /\ pc' = "raised"
    /\ UNCHANGED numbering_vars
    /\ UNCHANGED <<layer_names, input_layer_specs, layer_tags, last_number,
                   s1_layer_specs, resolution_order, resolution_count,
                   resolved_specs, resolved_tags, s2_layer_specs,
                   s3_layer_specs, s4_layer_specs, layer_specs, result>>

\* resolve_tags: one iteration of "for index in resolution_order"
ResolveTagsStep ==
    /\ pc = "resolve_tags_loop"
    /\ resolution_count < Len(resolution_order)
    /\ LET index == resolution_order[resolution_count + 1]
           new_spec == resolve_spec_tags(At(s1_layer_specs, index), resolved_tags)
       IN  /\ resolved_specs' =
                 [i \in DOMAIN resolved_specs \cup {index} |->
                     IF i = index THEN new_spec ELSE resolved_specs[i]]
           /\ resolved_tags' =
                 extend_tags(resolved_tags, At(layer_tags, index), new_spec)
    /\ resolution_count' = resolution_count + 1
    /\ UNCHANGED numbering_vars
    /\ UNCHANGED <<layer_names, pc, input_layer_specs, layer_tags, last_number,
                   s1_layer_specs, resolution_order, s2_layer_specs,
                   s3_layer_specs, s4_layer_specs, layer_specs, result, exc>>

\* resolve_tags: return [resolved_specs[index] for index in range(len(layer_tags))]
ResolveTagsReturn ==
    /\ pc = "resolve_tags_loop"
    /\ resolution_count = Len(resolution_order)
    /\ s2_layer_specs' = [i \in 1..Len(layer_tags) |-> resolved_specs[i - 1]]
    /\ pc' = "resolve_bounds"
    /\ UNCHANGED numbering_vars
    /\ UNCHANGED <<layer_names, input_layer_specs, layer_tags, last_number,
                   s1_layer_specs, resolution_order, resolution_count,
                   resolved_specs, resolved_tags, s3_layer_specs,
                   s4_layer_specs, layer_specs, result, exc>>

\* s3_layer_specs = resolve_bounds(s2_layer_specs)
ResolveBounds ==
    /\ pc = "resolve_bounds"
    /\ s3_layer_specs' = resolve_bounds(s2_layer_specs)
    /\ pc' = "resolve_ranges"
    /\ UNCHANGED numbering_vars
    /\ UNCHANGED <<layer_names, input_layer_specs, layer_tags, last_number,
                   s1_layer_specs, resolution_order, resolution_count,
                   resolved_specs, resolved_tags, s2_layer_specs,
                   s4_layer_specs, layer_specs, result, exc>>

\* s4_layer_specs = resolve_ranges(s3_layer_specs)
ResolveRanges ==
    /\ pc = "resolve_ranges"
    /\ s4_layer_specs' = resolve_ranges(s3_layer_specs)
    /\ pc' = "normalise_specs"
    /\ UNCHANGED numbering_vars
    /\ UNCHANGED <<layer_names, input_layer_specs, layer_tags, last_number,
                   s1_layer_specs, resolution_order, resolution_count,
                   resolved_specs, resolved_tags, s2_layer_specs,
                   s3_layer_specs, layer_specs, result, exc>>

\* layer_specs = normalise_specs(s4_layer_specs)
NormaliseSpecs ==
    /\ pc = "normalise_specs"
    /\ layer_specs' = normalise_specs(s4_layer_specs)
    /\ pc' = "return"
    /\ UNCHANGED numbering_vars
    /\ UNCHANGED <<layer_names, input_layer_specs, layer_tags, last_number,
                   s1_layer_specs, resolution_order, resolution_count,
                   resolved_specs, resolved_tags, s2_layer_specs,
                   s3_layer_specs, s4_layer_specs, result, exc>>

\* return [spec if input_spec is not None else None for ...]
Return ==
    /\ pc = "return"
    /\ result' = returned_layers(input_layer_specs, layer_specs)
    /\ pc' = "done"
    /\ UNCHANGED numbering_vars
    /\ UNCHANGED <<layer_names, input_layer_specs, layer_tags, last_number,
                   s1_layer_specs, resolution_order, resolution_count,
                   resolved_specs, resolved_tags, s2_layer_specs,
                   s3_layer_specs, s4_layer_specs, layer_specs, exc>>

\* The state at the call, for the argument deck
\* no insert_number call is in progress
NumberingIdle ==
    /\ existing_numbers = <<>>
    /\ position = 0
    /\ allow_negative = FALSE
    /\ preferred_step_size = 100
    /\ numbering_pc = "idle"
    /\ attempt = None
    /\ inserted_number = None
    /\ renumberings = <<>>
    /\ files = <<>>
    /\ renamed = 0
    /\ collided = FALSE

Called(deck) ==
    /\ NumberingIdle
    /\ layer_names = deck
    /\ pc = "parse_build_specification"
    /\ input_layer_specs = <<>>
    /\ layer_tags = <<>>
    /\ last_number = 0
    /\ s1_layer_specs = <<>>
    /\ resolution_order = <<>>
    /\ resolution_count = 0
    /\ resolved_specs = <<>>
    /\ resolved_tags = <<>>
    /\ s2_layer_specs = <<>>
    /\ s3_layer_specs = <<>>
    /\ s4_layer_specs = <<>>
    /\ layer_specs = <<>>
    /\ result = <<>>
    /\ exc = None

Next ==
    \/ ParseBuildSpecifications
    \/ RaiseLayerNameParseError
    \/ ParseTags
    \/ ResolveAutosStep
    \/ ResolveAutosReturn
    \/ ComputeTagResolutionOrder
    \/ RaiseIdentifierNotFoundError
    \/ RaiseCyclicDependencyError
    \/ ResolveTagsStep
    \/ ResolveTagsReturn
    \/ ResolveBounds
    \/ ResolveRanges
    \/ NormaliseSpecs
    \/ Return

(***************************************************************************)
(* The stages as functions of the parsed specs and tags, for the           *)
(* properties that compare the call on two decks                           *)
(***************************************************************************)
\* resolve_autos: the loop from the given last_number
RECURSIVE resolve_autos_from(_, _)
resolve_autos_from(specs, number) ==
    IF specs = <<>> THEN <<>>
    ELSE LET new_spec == [k \in 1..Len(Head(specs)) |->
                             resolve_step_auto(Head(specs)[k], number)]
             new_number == get_first_numeric_step(new_spec)
         IN  <<new_spec>> \o
             resolve_autos_from(Tail(specs),
                                IF new_number # None THEN new_number.value
                                ELSE number)

resolve_autos(specs) == resolve_autos_from(specs, 0)

\* resolve_tags: the loop over what is left of resolution_order
RECURSIVE resolve_tags_from(_, _, _, _, _)
resolve_tags_from(order, tags, specs, specs_so_far, tags_so_far) ==
    IF order = <<>> THEN specs_so_far
    ELSE LET index == Head(order)
             new_spec == resolve_spec_tags(At(specs, index), tags_so_far)
         IN  resolve_tags_from(
                 Tail(order), tags, specs,
                 [i \in DOMAIN specs_so_far \cup {index} |->
                     IF i = index THEN new_spec ELSE specs_so_far[i]],
                 extend_tags(tags_so_far, At(tags, index), new_spec))

\* The outcomes of resolve_tags: the list of specs, or the exception
resolve_tags(tags, specs) ==
    {IF outcome.type = "list"
     THEN LET resolved == resolve_tags_from(outcome.items, tags, specs,
                                            <<>>, <<>>)
          IN  List([i \in 1..Len(tags) |-> resolved[i - 1]])
     ELSE outcome :
        outcome \in compute_tag_resolution_order(
                       [i \in 1..Len(tags) |->
                           <<tags[i], layer_dependencies(specs)[i]>>])}

\* The outcomes of evaluate_build_steps after parsing: the list returned, or
\* the exception as resolve_tags raised it
resolved_layers(input_specs, tags) ==
    {IF s2.type = "list"
     THEN List(returned_layers(
                   input_specs,
                   normalise_specs(resolve_ranges(resolve_bounds(s2.items)))))
     ELSE s2 :
        s2 \in resolve_tags(
                   tags,
                   resolve_autos([i \in 1..Len(input_specs) |->
                                     effective_spec(input_specs[i])]))}

(***************************************************************************)
(* The decks evaluate_build_steps is called with                           *)
(*                                                                         *)
(* A deck is a list of at most MaxLayers layer names drawn from one of the *)
(* families below, or one of the decks of the documentation and the tests. *)
(***************************************************************************)
MaxLayers == 3


\* Automatic numbering next to numbers, ranges, tags and layers without a spec
AutoLayers ==
    {<<"<", "+", ">">>,   \* "<+>"
     <<"<", ".", ">">>,   \* "<.>"
     <<"<", ".", "-", "+", ">">>,   \* "<.-+>"
     <<"<", "-", "3", ">">>,   \* "<-3>"
     <<"<", "@", "a", ",", "2", ">">>,   \* "<@a,2>"
     <<"<", "1", ">", " ", "@", "a">>,   \* "<1> @a"
     <<"x">>,   \* "x"
     <<"<", ">">>}   \* "<>"

\* Shared tags, tag references and dependencies between layers
TagLayers ==
    {<<"<", "1", ">", " ", "@", "a">>,   \* "<1> @a"
     <<"<", "2", ",", "2", ">", " ", "@", "a">>,   \* "<2,2> @a"
     <<"x", " ", "@", "a">>,   \* "x @a"
     <<"<", "@", "a", ">">>,   \* "<@a>"
     <<"<", "@", "b", ">", " ", "@", "a">>,   \* "<@b> @a"
     <<"<", "@", "a", ">", " ", "@", "b">>,   \* "<@a> @b"
     <<"<", "1", "-", "@", "b", ">">>,   \* "<1-@b>"
     <<"<", "@", "a", ">", "<", ">">>,   \* "<@a><>"
     <<"<", "@", "a", ">", " ", "@", "a">>}   \* "<@a> @a"

\* Tag pools of numbers, ranges and bounds, and the four suffixes
SuffixLayers ==
    {<<"<", "2", ",", "4", ">", " ", "@", "a">>,   \* "<2,4> @a"
     <<"<", "3", "-", ">", " ", "@", "a">>,   \* "<3-> @a"
     <<"<", "-", "1", ">", " ", "@", "a">>,   \* "<-1> @a"
     <<"<", ">", " ", "@", "a">>,   \* "<> @a"
     <<"<", "@", "a", ".", "s", "t", "a", "r", "t", ">">>,   \* "<@a.start>"
     <<"<", "@", "a", ".", "e", "n", "d", ">">>,   \* "<@a.end>"
     <<"<", "@", "a", ".", "b", "e", "f", "o", "r", "e", ">">>,   \* "<@a.before>"
     <<"<", "@", "a", ".", "a", "f", "t", "e", "r", ">">>}   \* "<@a.after>"

\* Open ranges next to numbers, ranges and layers without a spec
BoundLayers ==
    {<<"<", "-", ">">>,   \* "<->"
     <<"<", "2", "-", ">">>,   \* "<2->"
     <<"<", "-", "1", ">">>,   \* "<-1>"
     <<"<", "3", ">">>,   \* "<3>"
     <<"<", "5", "-", "4", ">">>,   \* "<5-4>"
     <<"x">>,   \* "x"
     <<"<", ">">>,   \* "<>"
     <<"<", "@", "a", ".", "a", "f", "t", "e", "r", ">">>,   \* "<@a.after>"
     <<"<", "1", ">", " ", "@", "a">>}   \* "<1> @a"

\* Tag references as the ends of ranges, bare and with a suffix
RangeLayers ==
    {<<"<", "2", ",", "4", ">", " ", "@", "a">>,   \* "<2,4> @a"
     <<"<", "6", "-", "8", ">", " ", "@", "b">>,   \* "<6-8> @b"
     <<"<", "@", "a", "-", "@", "b", ">">>,   \* "<@a-@b>"
     <<"<", "@", "a", ".", "s", "t", "a", "r", "t", "-", "@", "b", ".", "e", "n", "d", ">">>,   \* "<@a.start-@b.end>"
     <<"<", "@", "b", "-", "@", "a", ">">>,   \* "<@b-@a>"
     <<"<", "@", "a", ".", "a", "f", "t", "e", "r", "-", "@", "b", ".", "b", "e", "f", "o", "r", "e", ">">>,   \* "<@a.after-@b.before>"
     <<"<", "@", "a", "-", "7", ">">>}   \* "<@a-7>"

\* Tags whose layers have an empty spec, and references to them
EmptyPoolLayers ==
    {<<"<", ">", " ", "@", "a">>,   \* "<> @a"
     <<"<", "@", "a", ">", " ", "@", "b">>,   \* "<@a> @b"
     <<"<", "@", "a", ">">>,   \* "<@a>"
     <<"<", "@", "a", ".", "e", "n", "d", ",", "3", ">">>,   \* "<@a.end,3>"
     <<"<", "1", "-", "@", "a", ">">>,   \* "<1-@a>"
     <<"<", "@", "b", ".", "b", "e", "f", "o", "r", "e", "-", "2", ">">>,   \* "<@b.before-2>"
     <<"<", "@", "a", "-", "@", "b", ">">>}   \* "<@a-@b>"

\* Malformed steps and unknown suffixes next to undefined tags and cycles
ParseErrorLayers ==
    {<<"<", "w", "o", "a", "h", "!", ">">>,   \* "<woah!>"
     <<"<", "@", "a", ".", "b", "a", "r", ">">>,   \* "<@a.bar>"
     <<"<", "@", "g", "h", "o", "s", "t", ">">>,   \* "<@ghost>"
     <<"<", "@", "a", ">", " ", "@", "a">>,   \* "<@a> @a"
     <<"<", "1", ">", " ", "@", "a">>,   \* "<1> @a"
     <<"<", "@", "b", ">", " ", "@", "a">>,   \* "<@b> @a"
     <<"<", "@", "a", ">", " ", "@", "b">>}   \* "<@a> @b"

\* Specs of several steps next to automatic numbering
OrderLayers ==
    {<<"<", "1", ",", "5", ",", "-", ">">>,   \* "<1,5,->"
     <<"<", "5", ",", "1", ">">>,   \* "<5,1>"
     <<"<", "+", ">">>,   \* "<+>"
     <<"<", ".", ",", "@", "a", ">">>,   \* "<.,@a>"
     <<"<", "+", ",", "3", ">", " ", "@", "a">>,   \* "<+,3> @a"
     <<"<", "-", ",", "2", ">">>}   \* "<-,2>"

\* Ranges with an empty side, blank pieces and brackets, further dashes
PieceLayers ==
    {<<"<", "-", ">">>,   \* "<->"
     <<"<", "-", "3", ">">>,   \* "<-3>"
     <<"<", "1", "-", "2", "-", "3", ">">>,   \* "<1-2-3>"
     <<"<", "1", ",", ",", "2", ">">>,   \* "<1,,2>"
     <<"<", " ", ">">>,   \* "< >"
     <<"<", "1", "-", "@", "b", "-", "c", ">">>,   \* "<1-@b-c>"
     <<"<", "5", ">", " ", "@", "b", "-", "c">>}   \* "<5> @b-c"

Families ==
    {AutoLayers, TagLayers, SuffixLayers, BoundLayers, RangeLayers,
     EmptyPoolLayers, ParseErrorLayers, OrderLayers, PieceLayers}

FamilyDecks ==
    UNION {UNION {[1..n -> family] : n \in 0..MaxLayers} : family \in Families}


\* tests/test_builds.py, TestEvaluateBuildSteps.test_integration
IntegrationDeck ==
    <<<<"A", " ", "<", "2", ">", " ", "@", "f", "o", "o">>,   \* "A <2> @foo"
      <<"B", " ", "<", "+", ">">>,   \* "B <+>"
      <<"C", " ", "<", "@", "f", "o", "o", ">">>,   \* "C <@foo>"
      <<"D", " ", "<", "-", ">">>,   \* "D <->"
      <<"E", " ", "@", "b", "a", "r">>,   \* "E @bar"
      <<"F", " ", "<", "@", "b", "a", "r", ">">>>>   \* "F <@bar>"

\* Auto-numbering determinism
AutoNumberingDeck ==
    <<<<"<", "+", ">">>,   \* "<+>"
      <<"<", ".", ">">>,   \* "<.>"
      <<"<", ".", ">">>,   \* "<.>"
      <<"<", "+", ">">>>>   \* "<+>"

\* builds.py, Automatic step numbering
HighlightDeck ==
    <<<<"T", "i", "t", "l", "e">>,   \* "Title"
      <<"1", " ", "<", "+", "-", ">">>,   \* "1 <+->"
      <<"1", "h", " ", "<", ".", ">">>,   \* "1h <.>"
      <<"2", " ", "<", "+", "-", ">">>,   \* "2 <+->"
      <<"2", "h", " ", "<", ".", ">">>>>   \* "2h <.>"

\* Bound defaulting, the first layer without a bracket
BoundDefaultDeck ==
    <<<<>>,   \* ""
      <<"<", "9", "9", ">">>>>   \* "<99>"

\* Bound defaulting, the first layer an explicit open range
OpenRangeDeck ==
    <<<<"<", "-", ">">>,   \* "<->"
      <<"<", "9", "9", ">">>>>   \* "<99>"

\* builds.py, Sharing tags
SharingTagsDeck ==
    <<<<"A", " ", "<", "1", ">", " ", "@", "f", "o", "o">>,   \* "A <1> @foo"
      <<"B", " ", "<", "2", ">", " ", "@", "f", "o", "o">>,   \* "B <2> @foo"
      <<"C", " ", "<", "@", "f", "o", "o", ">">>>>   \* "C <@foo>"

\* tests/test_builds.py, test_cyclic_dependency_error
CycleDeck ==
    <<<<"A", " ", "<", "@", "b", ">", " ", "@", "a">>,   \* "A <@b> @a"
      <<"B", " ", "<", "@", "c", ">", " ", "@", "b">>,   \* "B <@c> @b"
      <<"C", " ", "<", "@", "a", ">", " ", "@", "c">>>>   \* "C <@a> @c"

\* Unresolvable tag
GhostDeck ==
    <<<<"A", " ", "<", "1", ">">>,   \* "A <1>"
      <<"B", " ", "<", "0", "-", "@", "g", "h", "o", "s", "t", ">">>>>   \* "B <0-@ghost>"

\* tests/test_builds.py, test_identifier_not_found_layer_names
UndefinedDeck ==
    <<<<"W", "h", "o", " ", "k", "n", "o", "w", "s", " ", "w", "h", "a", "t", " ", "<", "@", "f", "o", "o", ">", " ", "i", "s", "?">>>>   \* "Who knows what <@foo> is?"

\* Two undefined tags in one layer
TwoUndefinedDeck ==
    <<<<"<", "@", "a", ",", "@", "b", ".", "e", "n", "d", ">">>>>   \* "<@a,@b.end>"

\* builds.py, Limitations of tags
LimitationDeck ==
    <<<<"A", " ", "<", "1", ">", " ", "@", "f", "o", "o">>,   \* "A <1> @foo"
      <<"B", " ", "<", "@", "f", "o", "o", ",", " ", "2", ">">>,   \* "B <@foo, 2>"
      <<"C", " ", "<", ".", ">">>>>   \* "C <.>"

\* No-bracket vs empty-bracket distinction
PlainDeck ==
    <<<<"p", "l", "a", "i", "n", " ", "n", "a", "m", "e">>,   \* "plain name"
      <<"n", "a", "m", "e", " ", "<", ">">>>>   \* "name <>"

\* Suffix arithmetic
SuffixDeck ==
    <<<<"<", "2", ",", "4", ",", "7", ",", "1", "0", ">", " ", "@", "t">>,   \* "<2,4,7,10> @t"
      <<"<", "@", "t", ".", "s", "t", "a", "r", "t", ">">>,   \* "<@t.start>"
      <<"<", "@", "t", ".", "e", "n", "d", ">">>,   \* "<@t.end>"
      <<"<", "@", "t", ".", "b", "e", "f", "o", "r", "e", ">">>,   \* "<@t.before>"
      <<"<", "@", "t", ".", "a", "f", "t", "e", "r", ">">>>>   \* "<@t.after>"

\* builds.py, Tag suffixes
TagSuffixDeck ==
    <<<<"F", "o", "o", " ", "<", "1", ",", " ", "2", ",", " ", "3", ">", " ", "@", "f", "o", "o">>,   \* "Foo <1, 2, 3> @foo"
      <<"A", " ", "<", "@", "f", "o", "o", ".", "b", "e", "f", "o", "r", "e", ">">>,   \* "A <@foo.before>"
      <<"B", " ", "<", "@", "f", "o", "o", ".", "s", "t", "a", "r", "t", ">">>,   \* "B <@foo.start>"
      <<"C", " ", "<", "@", "f", "o", "o", ".", "e", "n", "d", ">">>,   \* "C <@foo.end>"
      <<"D", " ", "<", "@", "f", "o", "o", ".", "a", "f", "t", "e", "r", ">">>>>   \* "D <@foo.after>"

\* tests/test_builds.py, test_invalid_step
InvalidStepDeck ==
    <<<<"A", " ", "<", "1", ">">>,   \* "A <1>"
      <<"B", " ", "<", "w", "o", "a", "h", "!", ">">>>>   \* "B <woah!>"

\* tests/test_builds.py, test_invalid_suffix
InvalidSuffixDeck ==
    <<<<"<", "@", "f", "o", "o", ".", "b", "a", "r", ">">>>>   \* "<@foo.bar>"

\* A reversed range in a tag pool
ReversedPoolDeck ==
    <<<<"<", "5", "-", "3", ">", " ", "@", "a">>,   \* "<5-3> @a"
      <<"<", "4", ">", " ", "@", "a">>,   \* "<4> @a"
      <<"<", "@", "a", ".", "s", "t", "a", "r", "t", ">">>,   \* "<@a.start>"
      <<"<", "@", "a", ".", "e", "n", "d", ">">>>>   \* "<@a.end>"

\* builds.py, Tags in ranges
ImpliedSuffixDeck ==
    <<<<"<", "2", ",", "4", ">", " ", "@", "f", "o", "o">>,   \* "<2,4> @foo"
      <<"<", "6", ",", "9", ">", " ", "@", "b", "a", "r">>,   \* "<6,9> @bar"
      <<"<", "@", "f", "o", "o", "-", "@", "b", "a", "r", ">">>,   \* "<@foo-@bar>"
      <<"<", "@", "f", "o", "o", ".", "s", "t", "a", "r", "t", "-", "@", "b", "a", "r", ".", "e", "n", "d", ">">>>>   \* "<@foo.start-@bar.end>"

\* tests/test_builds.py, test_resolve_ranges: inclusive and reversed ranges
RangeDeck ==
    <<<<"<", "3", "-", "5", ">">>,   \* "<3-5>"
      <<"<", "5", "-", "3", ">">>,   \* "<5-3>"
      <<"<", "7", ">">>>>   \* "<7>"

\* tests/test_builds.py, test_normalise_specs: steps repeated and out of order
NormaliseDeck ==
    <<<<"<", "3", ",", "1", "-", "2", ",", "2", ">", " ", "@", "a">>,   \* "<3,1-2,2> @a"
      <<"<", "@", "a", ",", "1", ">">>>>   \* "<@a,1>"

\* References to a tag whose only layer has an empty spec
EmptyPoolDeck ==
    <<<<"<", ">", " ", "@", "a">>,   \* "<> @a"
      <<"<", "@", "a", ">">>,   \* "<@a>"
      <<"<", "@", "a", ".", "e", "n", "d", ",", "3", ">">>,   \* "<@a.end,3>"
      <<"<", "1", "-", "@", "a", ">">>,   \* "<1-@a>"
      <<"<", "@", "a", ".", "b", "e", "f", "o", "r", "e", "-", "2", ">">>>>   \* "<@a.before-2>"

\* A cycle and an undefined tag before a malformed step
ParseErrorFirstDeck ==
    <<<<"<", "@", "b", ">", " ", "@", "a">>,   \* "<@b> @a"
      <<"<", "@", "a", ">", " ", "@", "b">>,   \* "<@a> @b"
      <<"<", "@", "g", "h", "o", "s", "t", ">">>,   \* "<@ghost>"
      <<"<", "w", "o", "a", "h", "!", ">">>>>   \* "<woah!>"

\* Two orders of one spec before a layer numbered automatically
ReorderDeck ==
    <<<<"<", "1", ",", "5", ",", "-", ">">>,   \* "<1,5,->"
      <<"<", "+", ">">>>>   \* "<+>"

\* ReorderDeck with the steps of its first layer reordered
ReorderedDeck ==
    <<<<"<", "5", ",", "1", ",", "-", ">">>,   \* "<5,1,->"
      <<"<", "+", ">">>>>   \* "<+>"

\* tests/test_builds.py, test_parse_build_specification: ranges and an empty bracket
PieceDeck ==
    <<<<"<", "-", ">">>,   \* "<->"
      <<"<", "2", "-", ">">>,   \* "<2->"
      <<"<", "-", "3", ">">>,   \* "<-3>"
      <<"<", "1", ",", " ", "2", "-", "4", ">">>,   \* "<1, 2-4>"
      <<"<", " ", ">">>>>   \* "< >"

\* A further dash in the suffix of the right side of a range
DashSuffixDeck ==
    <<<<"<", "1", "-", "@", "b", ".", "e", "-", "n", "d", ">">>>>   \* "<1-@b.e-nd>"

\* A further dash in the tag name of the right side of a range
HyphenTagDeck ==
    <<<<"<", "1", "-", "@", "b", "-", "c", ">">>,   \* "<1-@b-c>"
      <<"<", "5", ">", " ", "@", "b", "-", "c">>>>   \* "<5> @b-c"

\* tests/test_builds.py, test_parse_tags: labels next to decoys
LabelsDeck ==
    <<<<"f", "o", "o", " ", "<", "@", "f", "o", "o", ">">>,   \* "foo <@foo>"
      <<"f", "o", "o", " ", "@", "b", "a", "r", ".", "b", "a", "z">>,   \* "foo @bar.baz"
      <<"f", "o", "o", " ", "@", "b", "a", "r", "@", "b", "a", "z">>,   \* "foo @bar@baz"
      <<"@", "a", "<", "1", ">", "b">>,   \* "@a<1>b"
      <<"f", "o", "o", " ", "@", " ", "b", "a", "r">>>>   \* "foo @ bar"

\* A label directly followed by an empty bracket
EmptyBracketLabelDeck ==
    <<<<"A", " ", "@", "f", "o", "o", "<", ">">>,   \* "A @foo<>"
      <<"B", " ", "<", "@", "f", "o", "o", ">">>>>   \* "B <@foo>"

\* tests/test_builds.py, test_cyclic_dependency_multiple_steps_but_not_all: layer 0 only leads into the loop 1, 2, 3
LoopEntryDeck ==
    <<<<"L", " ", "<", "@", "b", ">", " ", "@", "a">>,   \* "L <@b> @a"
      <<"B", " ", "<", "@", "c", ">", " ", "@", "b">>,   \* "B <@c> @b"
      <<"C", " ", "<", "@", "d", ">", " ", "@", "c">>,   \* "C <@d> @c"
      <<"D", " ", "<", "@", "b", ">", " ", "@", "d">>>>   \* "D <@b> @d"

\* .before on a tag whose minimum is 0, next to an open range
BeforeZeroDeck ==
    <<<<"<", "0", ">", " ", "@", "a">>,   \* "<0> @a"
      <<"<", "@", "a", ".", "b", "e", "f", "o", "r", "e", ">">>,   \* "<@a.before>"
      <<"<", "-", ">">>>>   \* "<->"

DocDecks ==
    {BeforeZeroDeck,
     LoopEntryDeck,
     EmptyBracketLabelDeck,
     LabelsDeck,
     HyphenTagDeck,
     DashSuffixDeck,
     PieceDeck,
     ReorderedDeck,
     ReorderDeck,
     ParseErrorFirstDeck,
     EmptyPoolDeck,
     NormaliseDeck,
     RangeDeck,
     ImpliedSuffixDeck,
     ReversedPoolDeck,
     IntegrationDeck,
     AutoNumberingDeck,
     HighlightDeck,
     BoundDefaultDeck,
     OpenRangeDeck,
     SharingTagsDeck,
     CycleDeck,
     GhostDeck,
     UndefinedDeck,
     TwoUndefinedDeck,
     LimitationDeck,
     PlainDeck,
     SuffixDeck,
     TagSuffixDeck,
     InvalidStepDeck,
     InvalidSuffixDeck}


Decks == FamilyDecks \cup DocDecks

Init == \E deck \in Decks : Called(deck)

Spec == Init /\ [][Next]_vars

(***************************************************************************)
(* Vocabulary of the properties                                            *)
(***************************************************************************)
Layers == 1..Len(layer_names)

\* The call has ended, and not with a parse error: specs and labels are known
Ended == pc \in {"done", "raised"} /\ ~IsParseError(exc)

\* The layer name contains a bracketed <...> section
HasBracket(name) ==
    \E i \in 1..Len(name) : \E j \in (i + 1)..Len(name) :
        name[i] = "<" /\ name[j] = ">"

\* The atoms of a spec: its steps, and both ends of its ranges
AtomsOf(spec) ==
    UNION {IF spec[k].type = "Range" THEN {spec[k].start, spec[k].end}
           ELSE {spec[k]} : k \in 1..Len(spec)}

\* The tags layer i references: bare, with a suffix, or as a range end
ReferencedTags(i) ==
    IF input_layer_specs[i] = None THEN {}
    ELSE {a.name : a \in {b \in AtomsOf(input_layer_specs[i].items) :
                            b.type \in {"str", "tuple"}}}

AllLabels == UNION {layer_tags[j] : j \in 1..Len(layer_tags)}
UndefinedTags == UNION {ReferencedTags(i) \ AllLabels : i \in Layers}
Carriers(T) == {j \in Layers : T \in layer_tags[j]}

\* Layer i depends on layer j
DependsOn(i, j) == \E T \in ReferencedTags(i) : T \in layer_tags[j]

RECURSIVE ReachableIn(_, _)
ReachableIn(S, k) ==
    IF k = 0 THEN {}
    ELSE LET next == {j \in Layers : \E i \in S : DependsOn(i, j)}
         IN  next \cup ReachableIn(next, k - 1)

HasCycle == \E i \in Layers : i \in ReachableIn({i}, Len(layer_names))

\* The steps of every returned list, and the deck's first and last step as
\* get_build_step_range (svg_utils.py) finds them
ReturnedSteps ==
    UNION {IF result[i] = None THEN {} ELSE SetOf(result[i].items) :
             i \in 1..Len(result)}
DeckFirst == MinOf({0} \cup ReturnedSteps)
DeckLast == MaxOf({0} \cup ReturnedSteps)

\* The steps at which layer j is visible: a layer without a spec is visible
\* at every step of the deck
Visible(j) ==
    IF result[j] = None THEN DeckFirst..DeckLast ELSE SetOf(result[j].items)

(***************************************************************************)
(* C1: for every deck that resolves, the value returned has one entry per  *)
(* layer, in order, and the entry of layer i is a pair (steps, tags) whose *)
(* tags are the @tag labels of layer i, bracket or no bracket.             *)
(***************************************************************************)
C1_ReturnsStepsAndTags ==
    pc = "done" =>
        /\ Len(result) = Len(layer_names)
        /\ \A i \in Layers :
              /\ result[i].type = "tuple"
              /\ Len(result[i].items) = 2
              /\ result[i].items[2] = layer_tags[i]

(***************************************************************************)
(* C2: in the value returned the step list of a layer is None exactly when *)
(* its name holds no bracketed section; a layer with a bracket, even an    *)
(* empty one, reports a list, which may be empty.                          *)
(***************************************************************************)
C2_NoneIffNoBracket ==
    pc = "done" =>
        /\ Len(result) = Len(layer_names)
        /\ \A i \in Layers :
              /\ result[i] = None <=> ~HasBracket(layer_names[i])
              /\ HasBracket(layer_names[i]) => result[i].type = "list"

\* "plain name" reports None and "name <>" reports the empty list
C2_Witness ==
    /\ pc = "done"
    /\ layer_names = PlainDeck
    /\ result = <<None, List(<<>>)>>

(***************************************************************************)
(* C3: in a deck that resolves, a layer whose spec is exactly the bare     *)
(* reference <@T> is visible at the union of the steps at which the layers *)
(* labelled @T are visible, a labelled layer without a bracket counting as *)
(* visible from the first to the last step of the deck.                    *)
(***************************************************************************)
C3_TagUnion ==
    pc = "done" =>
        \A i \in Layers : \A T \in ReferencedTags(i) :
            input_layer_specs[i] = List(<<Tag(T)>>) =>
                /\ result[i].type = "list"
                /\ SetOf(result[i].items) = UNION {Visible(j) : j \in Carriers(T)}

\* [<1> @foo, <2> @foo, <@foo>]: the third layer resolves to [1, 2]
C3_Witness ==
    /\ pc = "done"
    /\ layer_names = SharingTagsDeck
    /\ result[3] = List(<<1, 2>>)

(***************************************************************************)
(* C4: when every referenced tag is carried by some layer, the call raises *)
(* CyclicDependencyError exactly when the dependency graph of the layers   *)
(* has a cycle; a cyclic deck returns no step lists.                       *)
(***************************************************************************)
C4_CycleIffRejected ==
    (Ended /\ UndefinedTags = {}) =>
        /\ (pc = "raised" /\ exc.type = "CyclicDependencyError") <=> HasCycle
        /\ HasCycle => result = <<>>
        /\ ~HasCycle => pc = "done"

\* The three-layer cycle is rejected
C4_Witness ==
    /\ pc = "raised"
    /\ layer_names = CycleDeck
    /\ exc.type = "CyclicDependencyError"
    /\ HasCycle

(***************************************************************************)
(* C5: if some layer references a tag that no layer carries, the call      *)
(* raises IdentifierNotFoundError naming such a tag and a layer that       *)
(* references it, and returns nothing; if every referenced tag is carried  *)
(* the error is never raised.                                              *)
(***************************************************************************)
C5_UndefinedTagRaises ==
    Ended =>
        IF UndefinedTags # {}
        THEN /\ pc = "raised"
             /\ exc.type = "IdentifierNotFoundError"
             /\ exc.identifier \in UndefinedTags
             /\ exc.layer_index + 1 \in Layers
             /\ exc.identifier \in ReferencedTags(exc.layer_index + 1)
             /\ result = <<>>
        ELSE exc.type # "IdentifierNotFoundError"

\* The undefined tag is the end of a range of the second layer
C5_Witness ==
    /\ pc = "raised"
    /\ layer_names = GhostDeck
    /\ exc.type = "IdentifierNotFoundError"
    /\ exc.identifier = <<"g", "h", "o", "s", "t">>
    /\ exc.layer_index = 1

\* The spec a layer enters resolution with
EnteringSpec(i) ==
    IF input_layer_specs[i] = None THEN <<Range(Start, End)>>
    ELSE input_layer_specs[i].items

\* An atom with + read as c + 1 and . read as c
AutoAtom(atom, c) ==
    CASE atom.type = "Plus" -> Numeric(c + 1)
      [] atom.type = "Dot" -> Numeric(c)
      [] OTHER -> atom

\* resolve_autos has just processed one more layer
AutoResolvedLayer ==
    /\ pc = "resolve_autos"
    /\ Len(s1_layer_specs') = Len(s1_layer_specs) + 1

(***************************************************************************)
(* C6: the carry is 0 before the first layer, and when a layer is          *)
(* processed every + of its spec becomes carry + 1 and every . becomes     *)
(* carry, for the carry as it stood before the layer, both ends of a range *)
(* included.                                                               *)
(***************************************************************************)
C6_AutoNumbering ==
    /\ [](s1_layer_specs = <<>> => last_number = 0)
    /\ [][AutoResolvedLayer =>
            LET i == Len(s1_layer_specs')
                old == EnteringSpec(i)
                new == s1_layer_specs'[i]
            IN  /\ Len(new) = Len(old)
                /\ \A k \in 1..Len(old) :
                      new[k] = IF old[k].type = "Range"
                               THEN Range(AutoAtom(old[k].start, last_number),
                                          AutoAtom(old[k].end, last_number))
                               ELSE AutoAtom(old[k], last_number)]_vars

\* [<+>, <.>, <.>, <+>] resolves to [1], [1], [1], [2]
C6_Witness ==
    /\ pc = "done"
    /\ layer_names = AutoNumberingDeck
    /\ result = <<List(<<1>>), List(<<1>>), List(<<1>>), List(<<2>>)>>

\* The atom at place p of a spec, places counted step by step, a range
\* taking two places (start, then end) and any other step one
PlaceAtom(spec, k, side) ==
    IF spec[k].type = "Range"
    THEN (IF side = 0 THEN spec[k].start ELSE spec[k].end)
    ELSE (IF side = 0 THEN spec[k] ELSE None)
NumericPlaces(spec) ==
    {p \in 2..(2 * Len(spec) + 1) :
        PlaceAtom(spec, p \div 2, p % 2).type = "int"}
FirstNumeric(spec) ==
    LET p == MinOf(NumericPlaces(spec)) IN PlaceAtom(spec, p \div 2, p % 2).value

(***************************************************************************)
(* C7: after a layer is auto-resolved the carry is the first numeric step  *)
(* of its spec by position (of a range, the start if numeric, otherwise    *)
(* the end if numeric); a spec with no numeric step (tag references,       *)
(* Start and End, an empty spec, no bracket) leaves the carry unchanged.   *)
(***************************************************************************)
C7_CarryUpdate ==
    [][AutoResolvedLayer =>
          LET new == s1_layer_specs'[Len(s1_layer_specs')]
          IN  last_number' = IF NumericPlaces(new) = {} THEN last_number
                             ELSE FirstNumeric(new)]_vars

\* [A <1> @foo, B <@foo, 2>, C <.>]: layer C resolves to [2]
C7_Witness ==
    /\ pc = "done"
    /\ layer_names = LimitationDeck
    /\ s1_layer_specs[2] = <<Tag(<<"f", "o", "o">>), Numeric(2)>>
    /\ result[3] = List(<<2>>)

\* The integers from lo to hi in ascending order
Ascending(lo, hi) ==
    IF hi < lo THEN <<>> ELSE [k \in 1..(hi - lo + 1) |-> lo + k - 1]

\* 0 and the numeric atoms of the tag-resolved specs, range ends included
BoundCandidates ==
    {0} \cup {a.value : a \in {b \in UNION {AtomsOf(s2_layer_specs[i]) :
                                           i \in 1..Len(s2_layer_specs)} :
                                  b.type = "int"}}
BoundAtom(atom) ==
    CASE atom.type = "Start" -> Numeric(MinOf(BoundCandidates))
      [] atom.type = "End" -> Numeric(MaxOf(BoundCandidates))
      [] OTHER -> atom

(***************************************************************************)
(* C8: every Start becomes the minimum and every End the maximum of 0 and  *)
(* the numeric atoms (range ends included) of all tag-resolved specs, the  *)
(* same two values for the whole deck; a layer annotated <-> resolves to   *)
(* every integer from that minimum to that maximum.                        *)
(***************************************************************************)
C8_BoundResolution ==
    /\ pc \in {"resolve_ranges", "normalise_specs", "return", "done"} =>
          /\ Len(s3_layer_specs) = Len(s2_layer_specs)
          /\ \A i \in 1..Len(s2_layer_specs) :
                /\ Len(s3_layer_specs[i]) = Len(s2_layer_specs[i])
                /\ \A k \in 1..Len(s2_layer_specs[i]) :
                      s3_layer_specs[i][k] =
                          IF s2_layer_specs[i][k].type = "Range"
                          THEN Range(BoundAtom(s2_layer_specs[i][k].start),
                                     BoundAtom(s2_layer_specs[i][k].end))
                          ELSE BoundAtom(s2_layer_specs[i][k])
    /\ pc = "done" =>
          \A i \in Layers :
              input_layer_specs[i] = List(<<Range(Start, End)>>) =>
                  result[i] = List(Ascending(MinOf(BoundCandidates),
                                             MaxOf(BoundCandidates)))

\* [<->, <99>]: the <-> layer resolves to 0..99
C8_Witness ==
    /\ pc = "done"
    /\ layer_names = OpenRangeDeck
    /\ result[1] = List(Ascending(0, 99))
    /\ result[2] = List(<<99>>)

(***************************************************************************)
(* C9: a layer without a bracket is resolved as if annotated <->: a layer  *)
(* whose spec is a bare reference to a tag of such a layer resolves to     *)
(* every integer from the first to the last step of the deck, while the    *)
(* layer without a bracket itself reports None.                            *)
(***************************************************************************)
C9_NoBracketIsOpenRange ==
    pc = "done" =>
        \A j \in Layers :
            ~HasBracket(layer_names[j]) =>
                /\ result[j] = None
                /\ s1_layer_specs[j] = <<Range(Start, End)>>
                /\ layer_specs[j] = Ascending(MinOf(BoundCandidates),
                                              MaxOf(BoundCandidates))
                /\ \A i \in Layers : \A T \in layer_tags[j] :
                      input_layer_specs[i] = List(<<Tag(T)>>) =>
                          result[i] = List(Ascending(DeckFirst, DeckLast))

\* The integration deck: F <@bar> resolves to [0, 1, 2, 3] and E @bar to None
C9_Witness ==
    /\ pc = "done"
    /\ layer_names = IntegrationDeck
    /\ result[5] = None
    /\ result[6] = List(<<0, 1, 2, 3>>)

\* Start sorts below and End above every integer
Rank(atom) ==
    CASE atom.type = "Start" -> 0 [] atom.type = "int" -> 1 [] atom.type = "End" -> 2
NotAbove(a, b) ==
    \/ Rank(a) < Rank(b)
    \/ Rank(a) = Rank(b) /\ (a.type = "int" => a.value <= b.value)
Minimum(atoms) == CHOOSE m \in atoms : \A a \in atoms : NotAbove(m, a)
Maximum(atoms) == CHOOSE m \in atoms : \A a \in atoms : NotAbove(a, m)

\* The atoms of the pool of tag T, ranges flattened to their two ends
PoolAtoms(T) == UNION {AtomsOf(s2_layer_specs[j]) : j \in Carriers(T)}

SuffixValue(atoms, suffix) ==
    CASE suffix = SuffixStart -> Minimum(atoms)
      [] suffix = SuffixEnd -> Maximum(atoms)
      [] suffix = SuffixBefore ->
            IF Minimum(atoms).type = "int"
            THEN Numeric(Minimum(atoms).value - 1) ELSE Minimum(atoms)
      [] suffix = SuffixAfter ->
            IF Maximum(atoms).type = "int"
            THEN Numeric(Maximum(atoms).value + 1) ELSE Maximum(atoms)

(***************************************************************************)
(* C10: for a non-empty tag pool, ranges flattened to their two ends and   *)
(* Start below, End above every integer, .start resolves to the minimum    *)
(* atom, .end to the maximum, .before to minimum - 1 when the minimum is   *)
(* an integer and to the bound itself otherwise, .after to maximum + 1     *)
(* when the maximum is an integer and to the bound itself otherwise.       *)
(***************************************************************************)
C10_SuffixArithmetic ==
    pc \in {"resolve_bounds", "resolve_ranges", "normalise_specs", "return",
            "done"} =>
        \A i \in Layers :
            (/\ Len(s1_layer_specs[i]) = 1
             /\ s1_layer_specs[i][1].type = "tuple"
             /\ PoolAtoms(s1_layer_specs[i][1].name) # {}) =>
                s2_layer_specs[i] =
                    <<SuffixValue(PoolAtoms(s1_layer_specs[i][1].name),
                                  s1_layer_specs[i][1].suffix)>>

\* The pool [2, 4, 7, 10]: .start 2, .end 10, .before 1, .after 11
C10_Witness ==
    /\ pc = "done"
    /\ layer_names = SuffixDeck
    /\ result = <<List(<<2, 4, 7, 10>>), List(<<2>>), List(<<10>>),
                  List(<<1>>), List(<<11>>)>>

\* The steps at which the layers labelled @T are together visible
TaggedVisible(T) == UNION {Visible(j) : j \in Carriers(T)}

(***************************************************************************)
(* C11: in a deck that resolves, when the layers labelled @T are together  *)
(* visible at a non-empty set S of steps, a layer whose spec is <@T.start> *)
(* resolves to [min S] and a layer whose spec is <@T.end> to [max S].      *)
(***************************************************************************)
C11_StartEndAreFirstLast ==
    pc = "done" =>
        \A i \in Layers : \A T \in ReferencedTags(i) :
            TaggedVisible(T) # {} =>
                /\ input_layer_specs[i] = List(<<TagSuffix(T, SuffixStart)>>) =>
                      result[i] = List(<<MinOf(TaggedVisible(T))>>)
                /\ input_layer_specs[i] = List(<<TagSuffix(T, SuffixEnd)>>) =>
                      result[i] = List(<<MaxOf(TaggedVisible(T))>>)

\* An end of a range with the suffix a bare tag reference implies there
ImpliedSide(atom, implied) ==
    IF atom.type = "str" THEN TagSuffix(atom.name, implied) ELSE atom

\* A spec with the implied suffixes of its ranges written out
ExplicitRanges(spec) ==
    [k \in 1..Len(spec) |->
        IF spec[k].type = "Range"
        THEN Range(ImpliedSide(spec[k].start, SuffixStart),
                   ImpliedSide(spec[k].end, SuffixEnd))
        ELSE spec[k]]

\* The atoms an end of a range stands for: none for an empty tag pool
SideAtoms(atom) ==
    IF atom.type # "tuple" THEN {atom}
    ELSE IF PoolAtoms(atom.name) = {} THEN {}
    ELSE {SuffixValue(PoolAtoms(atom.name), atom.suffix)}

(***************************************************************************)
(* C12: a bare tag reference on the left of a range is resolved as .start  *)
(* and on the right as .end, an explicit suffix on either side is kept;    *)
(* two layers whose specs differ only in writing the implied suffixes out  *)
(* resolve to the same step list, as <@foo-@bar> and <@foo.start-@bar.end>.*)
(***************************************************************************)
C12_ImpliedSuffixes ==
    /\ pc \in {"resolve_bounds", "resolve_ranges", "normalise_specs", "return",
               "done"} =>
          \A i \in Layers :
              (Len(s1_layer_specs[i]) = 1 /\ s1_layer_specs[i][1].type = "Range") =>
                  LET lefts == SideAtoms(ImpliedSide(s1_layer_specs[i][1].start,
                                                     SuffixStart))
                      rights == SideAtoms(ImpliedSide(s1_layer_specs[i][1].end,
                                                      SuffixEnd))
                  IN  s2_layer_specs[i] =
                          IF lefts = {} \/ rights = {} THEN <<>>
                          ELSE <<Range(CHOOSE a \in lefts : TRUE,
                                       CHOOSE a \in rights : TRUE)>>
    /\ pc = "done" =>
          \A i, j \in Layers :
              ExplicitRanges(s1_layer_specs[i]) = ExplicitRanges(s1_layer_specs[j])
                  => layer_specs[i] = layer_specs[j]

\* <@foo-@bar> and <@foo.start-@bar.end> both resolve to 2..9
C12_Witness ==
    /\ pc = "done"
    /\ layer_names = ImpliedSuffixDeck
    /\ s1_layer_specs[3] # s1_layer_specs[4]
    /\ result[3] = List(Ascending(2, 9))
    /\ result[4] = List(Ascending(2, 9))

\* The integers a numeric step stands for
StepExpansion(step) ==
    IF step.type = "Range" THEN Ascending(step.start.value, step.end.value)
    ELSE <<step.value>>

RECURSIVE Expansion(_)
Expansion(spec) ==
    IF spec = <<>> THEN <<>>
    ELSE StepExpansion(Head(spec)) \o Expansion(Tail(spec))

\* The layer's spec is the single range <a-b> of two integers
IsNumericRange(spec) ==
    /\ spec.type = "list"
    /\ Len(spec.items) = 1
    /\ spec.items[1].type = "Range"
    /\ spec.items[1].start.type = "int"
    /\ spec.items[1].end.type = "int"

(***************************************************************************)
(* C13: a range whose ends resolved to a and b contributes a, a+1, ..., b  *)
(* when a <= b and nothing, without error, when b < a; any other step      *)
(* passes through unchanged.  <3-5> gives [3, 4, 5] and <5-3> gives [].    *)
(***************************************************************************)
C13_RangeExpansion ==
    /\ pc \in {"normalise_specs", "return", "done"} =>
          /\ Len(s4_layer_specs) = Len(s3_layer_specs)
          /\ \A i \in 1..Len(s3_layer_specs) :
                s4_layer_specs[i] = Expansion(s3_layer_specs[i])
    /\ pc = "done" =>
          \A i \in Layers :
              IsNumericRange(input_layer_specs[i]) =>
                  LET a == input_layer_specs[i].items[1].start.value
                      b == input_layer_specs[i].items[1].end.value
                  IN  result[i] = List(Ascending(a, b))
    /\ (\A i \in Layers : IsNumericRange(parsed_specs[i])) => pc # "raised"

\* [<3-5>, <5-3>, <7>] expands to [3, 4, 5], [] and [7]
C13_Witness ==
    /\ pc = "done"
    /\ layer_names = RangeDeck
    /\ s4_layer_specs = <<<<3, 4, 5>>, <<>>, <<7>>>>
    /\ result = <<List(<<3, 4, 5>>), List(<<>>), List(<<7>>)>>

\* No step of the list is followed by a smaller or equal one
StrictlyAscending(steps) ==
    \A k \in 1..(Len(steps) - 1) : steps[k] < steps[k + 1]

(***************************************************************************)
(* C14: every step list returned that is not None is strictly ascending    *)
(* (sorted, no duplicate) and holds exactly the distinct integers that     *)
(* range expansion produced for the layer, in whatever order and number.   *)
(***************************************************************************)
C14_SortedDistinct ==
    pc = "done" =>
        \A i \in Layers :
            result[i] # None =>
                /\ result[i].type = "list"
                /\ StrictlyAscending(result[i].items)
                /\ SetOf(result[i].items) = SetOf(s4_layer_specs[i])

\* <3,1-2,2> expands to [3, 1, 2, 2] and <@a,1> to [3, 1, 2, 2, 1]; both
\* are returned as [1, 2, 3]
C14_Witness ==
    /\ pc = "done"
    /\ layer_names = NormaliseDeck
    /\ s4_layer_specs = <<<<3, 1, 2, 2>>, <<3, 1, 2, 2, 1>>>>
    /\ result = <<List(<<1, 2, 3>>), List(<<1, 2, 3>>)>>

\* The tags carried by some layer whose layers all have an empty
\* tag-resolved spec
EmptyTags ==
    {T \in AllLabels : \A j \in Carriers(T) : s2_layer_specs[j] = <<>>}

\* The atom references a tag of EmptyTags, bare or with a suffix
RefersToEmptyTag(atom) ==
    atom.type \in {"str", "tuple"} /\ atom.name \in EmptyTags

\* The step is such a reference, or a range with such a reference as a side
ContributesNothing(step) ==
    IF step.type = "Range"
    THEN RefersToEmptyTag(step.start) \/ RefersToEmptyTag(step.end)
    ELSE RefersToEmptyTag(step)

\* The other steps of the spec, in order
OtherSteps(spec) ==
    LET contributes(step) == ~ContributesNothing(step)
    IN  SelectSeq(spec, contributes)

\* Some layer references a tag carried only by layers with an empty bracket
ReferencesEmptyBracketTag ==
    \E i \in Layers : \E T \in ReferencedTags(i) :
        /\ Carriers(T) # {}
        /\ \A j \in Carriers(T) : input_layer_specs[j] = List(<<>>)

(***************************************************************************)
(* C15: when every layer carrying tag T has an empty tag-resolved spec, a  *)
(* reference @T or @T.suffix contributes no step and a range with such a   *)
(* reference as either side contributes nothing; the referencing layer     *)
(* resolves to the steps of its other spec elements and nothing is raised. *)
(***************************************************************************)
C15_EmptyPoolIsNotAnError ==
    /\ pc \in {"resolve_bounds", "resolve_ranges", "normalise_specs", "return",
               "done"} =>
          \A i \in Layers :
              /\ s2_layer_specs[i] =
                    resolve_spec_tags(OtherSteps(s1_layer_specs[i]), resolved_tags)
              /\ (\A k \in 1..Len(s1_layer_specs[i]) :
                      ContributesNothing(s1_layer_specs[i][k]))
                    => s2_layer_specs[i] = <<>>
    /\ (Ended /\ UndefinedTags = {} /\ ~HasCycle /\ ReferencesEmptyBracketTag)
          => pc = "done"

\* <> @a is referenced bare, with a suffix and on both sides of ranges: only
\* the 3 of <@a.end,3> remains
C15_Witness ==
    /\ pc = "done"
    /\ layer_names = EmptyPoolDeck
    /\ EmptyTags = {<<"a">>}
    /\ result = <<List(<<>>), List(<<>>), List(<<3>>), List(<<>>), List(<<>>)>>

\* The layers whose name holds a malformed step or an unknown tag suffix
Malformed ==
    {i \in Layers : IsParseError(parse_build_specification(layer_names[i]))}

(***************************************************************************)
(* C16: if any layer name holds a malformed step or an unknown tag suffix, *)
(* the call raises the parse error of the first such layer before any      *)
(* stage runs and returns nothing, also when the deck holds an undefined   *)
(* tag reference or a cyclic dependency, which is then not reported; a     *)
(* deck without such a layer never raises a parse error.  The names are    *)
(* looked at where the call parses them, has just parsed them, or raised.  *)
(***************************************************************************)
C16_ParseErrorsFirst ==
    /\ pc \in {"parse_build_specification", "parse_tags", "raised"} =>
          IF Malformed # {}
          THEN /\ pc \in {"parse_build_specification", "raised"}
               /\ input_layer_specs = <<>> /\ layer_tags = <<>>
               /\ s1_layer_specs = <<>> /\ resolution_order = <<>>
               /\ result = <<>>
               /\ pc = "raised" =>
                     /\ exc.type \in {"InvalidStepError",
                                      "UnexpectedTagSuffixError"}
                     /\ exc = parse_build_specification(
                                  layer_names[MinOf(Malformed)])
          ELSE exc.type \notin {"InvalidStepError", "UnexpectedTagSuffixError"}
    /\ pc \notin {"parse_build_specification", "raised"} =>
          /\ Len(input_layer_specs) = Len(layer_names)
          /\ exc = None

\* [<@b> @a, <@a> @b, <@ghost>, <woah!>] raises InvalidStepError("woah!")
C16_Witness ==
    /\ pc = "raised"
    /\ layer_names = ParseErrorFirstDeck
    /\ exc = InvalidStepError(<<"w", "o", "a", "h", "!">>)
    /\ result = <<>>

(***************************************************************************)
(* C17: a raised IdentifierNotFoundError has layer_name equal to           *)
(* layer_names[layer_index]; a raised CyclicDependencyError has as many    *)
(* layer_names as layer_indices, the k-th being                            *)
(* layer_names[layer_indices[k]].  Indices count from 0.                   *)
(***************************************************************************)
C17_ErrorsNameLayers ==
    pc = "raised" =>
        /\ exc.type = "IdentifierNotFoundError" =>
              /\ exc.layer_index \in 0..(Len(layer_names) - 1)
              /\ exc.layer_name = layer_names[exc.layer_index + 1]
        /\ exc.type = "CyclicDependencyError" =>
              /\ Len(exc.layer_names) = Len(exc.layer_indices)
              /\ \A k \in 1..Len(exc.layer_indices) :
                    /\ exc.layer_indices[k] \in 0..(Len(layer_names) - 1)
                    /\ exc.layer_names[k] = layer_names[exc.layer_indices[k] + 1]

\* The cycle of A, B and C is reported as the chain A, B, C, A
C17_Witness ==
    /\ pc = "raised"
    /\ layer_names = CycleDeck
    /\ exc.type = "CyclicDependencyError"
    /\ exc.layer_indices = <<0, 1, 2, 0>>
    /\ exc.layer_names = <<CycleDeck[1], CycleDeck[2], CycleDeck[3], CycleDeck[1]>>

\* The orders in which n steps can be written
Orders(n) ==
    {p \in [1..n -> 1..n] : \A a, b \in 1..n : p[a] = p[b] => a = b}

Reordered(spec, p) == [k \in 1..Len(spec) |-> spec[p[k]]]

\* The parsed specs of the deck with the steps of layer i in the order p
WithReordered(i, p) ==
    [input_layer_specs EXCEPT ![i] = List(Reordered(input_layer_specs[i].items, p))]

\* The step lists the deck with the steps of layer i reordered returns for
\* layer i; an exception counts as no list
ReorderedResults(i, p) ==
    {IF outcome.type = "list" /\ Len(outcome.items) = Len(layer_names)
     THEN outcome.items[i] ELSE outcome :
        outcome \in resolved_layers(WithReordered(i, p), layer_tags)}

\* The reordering leaves the carry after layer i as it was
KeepsCarry(i, p) ==
    \/ NumericPlaces(s1_layer_specs[i]) = {}
    \/ FirstNumeric(Reordered(s1_layer_specs[i], p)) =
           FirstNumeric(s1_layer_specs[i])

\* Some layer after layer i has a + or a . in its spec
NumberedAfter(i) ==
    \E j \in (i + 1)..Len(layer_names) :
        \E atom \in AtomsOf(EnteringSpec(j)) : atom.type \in {"Plus", "Dot"}

(***************************************************************************)
(* C18, as stated: reordering the comma-separated steps of one layer's     *)
(* build specification does not change the step list returned for that     *)
(* layer.                                                                  *)
(***************************************************************************)
C18_OrderIrrelevant ==
    pc = "done" =>
        \A i \in Layers :
            input_layer_specs[i] # None =>
                \A p \in Orders(Len(input_layer_specs[i].items)) :
                    ReorderedResults(i, p) = {result[i]}

(***************************************************************************)
(* C18, amended: reordering the steps of one layer's build specification   *)
(* does not change the step list returned for that layer when the          *)
(* reordering keeps the layer's first numeric step, or when no later layer *)
(* has a + or a . in its spec.                                             *)
(***************************************************************************)
C18_OrderIrrelevantToCarry ==
    pc = "done" =>
        /\ resolved_layers(input_layer_specs, layer_tags) = {List(result)}
        /\ \A i \in Layers :
              input_layer_specs[i] # None =>
                  \A p \in Orders(Len(input_layer_specs[i].items)) :
                      (KeepsCarry(i, p) \/ ~NumberedAfter(i)) =>
                          ReorderedResults(i, p) = {result[i]}

\* <3,1-2,2> @a read as <2,1-2,3> @a, with its numbers in another order and
\* no layer numbered after it, still returns [1, 2, 3]
C18_Witness ==
    /\ pc = "done"
    /\ layer_names = NormaliseDeck
    /\ ~KeepsCarry(1, <<3, 2, 1>>)
    /\ ~NumberedAfter(1)
    /\ ReorderedResults(1, <<3, 2, 1>>) = {List(<<1, 2, 3>>)}
    /\ result[1] = List(<<1, 2, 3>>)

\* No layer of the deck has a + or a . in its spec
NoAutomaticNumbers ==
    \A i \in Layers :
        \A atom \in AtomsOf(EnteringSpec(i)) : atom.type \notin {"Plus", "Dot"}

(***************************************************************************)
(* C19: for a deck without + and . that resolves without error, permuting  *)
(* the layers permutes the returned step lists in the same way: the step   *)
(* list of a layer does not depend on the position of the layers nor on    *)
(* the tag resolution order that results from it.                          *)
(***************************************************************************)
C19_LayerOrderIrrelevant ==
    (pc = "done" /\ NoAutomaticNumbers) =>
        \A p \in Orders(Len(layer_names)) :
            resolved_layers(Reordered(input_layer_specs, p),
                            Reordered(layer_tags, p))
                = {List(Reordered(result, p))}

\* [<1> @foo, <2> @foo, <@foo>] read from the last layer to the first: the
\* reference now comes first and is resolved last, and still gives [1, 2]
C19_Witness ==
    /\ pc = "done"
    /\ layer_names = SharingTagsDeck
    /\ NoAutomaticNumbers
    /\ resolution_order = <<0, 1, 2>>
    /\ resolved_layers(Reordered(input_layer_specs, <<3, 2, 1>>),
                       Reordered(layer_tags, <<3, 2, 1>>))
           = {List(<<List(<<1, 2>>), List(<<2>>), List(<<1>>)>>)}

\* The text between the brackets of a layer name that is one <...> section
\* from its first to its last character
IsOneBracket(name) ==
    /\ Len(name) >= 2 /\ name[1] = "<" /\ name[Len(name)] = ">"
    /\ \A k \in 2..(Len(name) - 1) : name[k] \notin {"<", ">"}
Content(name) == strip(SubSeq(name, 2, Len(name) - 1))
Pieces(name) == split(Content(name), ",")

\* The place of the first "-" of a piece, the text on its left and right
HasDash(piece) == \E k \in 1..Len(piece) : piece[k] = "-"
FirstDash(piece) == MinOf({k \in 1..Len(piece) : piece[k] = "-"})
LeftOf(piece) == strip(SubSeq(piece, 1, FirstDash(piece) - 1))
RightOf(piece) == strip(SubSeq(piece, FirstDash(piece) + 1, Len(piece)))

\* A side of a range: empty for the bound, otherwise a single atom
SideAtom(text, bound) ==
    IF text = <<>> THEN bound ELSE parse_build_specification_step(text, None)

\* Piece k is the first of the name that does not parse
FirstToFail(name, k) ==
    /\ IsParseError(parse_step_or_range(Pieces(name)[k]))
    /\ \A j \in 1..(k - 1) : ~IsParseError(parse_step_or_range(Pieces(name)[j]))

\* What every reading of the claim shares: the split at the first "-", the
\* bounds for empty sides, single atoms, blank pieces and blank brackets
PiecesParse(name) ==
    LET spec == parse_build_specification(name)
    IN  /\ Content(name) = <<>> => spec = List(<<>>)
        /\ (Content(name) # <<>> /\ spec.type = "list") =>
              /\ Len(spec.items) = Len(Pieces(name))
              /\ \A k \in 1..Len(Pieces(name)) :
                    LET piece == Pieces(name)[k]
                    IN  IF HasDash(piece)
                        THEN spec.items[k] =
                                 Range(SideAtom(LeftOf(piece), Start),
                                       SideAtom(RightOf(piece), End))
                        ELSE /\ spec.items[k].type # "Range"
                             /\ spec.items[k] =
                                   parse_build_specification_step(piece, None)
        /\ Content(name) # <<>> =>
              \A k \in 1..Len(Pieces(name)) :
                  (strip(Pieces(name)[k]) = <<>> /\ FirstToFail(name, k)) =>
                      spec = InvalidStepError(<<>>)
        /\ (Content(name) # <<>> /\ spec.type # "list") =>
              \E k \in 1..Len(Pieces(name)) : FirstToFail(name, k)

\* The piece has a "-" after its first "-"
HasSecondDash(piece) == HasDash(piece) /\ HasDash(RightOf(piece))

(***************************************************************************)
(* C20, as stated: each comma-separated piece holding a "-" is split at    *)
(* the first "-" into a Range whose empty left side is Start and empty     *)
(* right side is End; a piece without "-" is a single atom; a blank piece  *)
(* and a piece with a second "-" raise InvalidStepError; a blank bracket   *)
(* gives an empty but present spec.                                        *)
(***************************************************************************)
C20_RangeParsing ==
    \A i \in Layers :
        (pc = "parse_build_specification" /\ IsOneBracket(layer_names[i])) =>
            /\ PiecesParse(layer_names[i])
            /\ Content(layer_names[i]) # <<>> =>
                  \A k \in 1..Len(Pieces(layer_names[i])) :
                      (/\ HasSecondDash(Pieces(layer_names[i])[k])
                       /\ \A j \in 1..(k - 1) :
                             ~IsParseError(parse_step_or_range(
                                               Pieces(layer_names[i])[j]))
                       /\ ~IsParseError(SideAtom(LeftOf(Pieces(layer_names[i])[k]),
                                                 Start))) =>
                          parse_build_specification(layer_names[i]).type
                              = "InvalidStepError"

(***************************************************************************)
(* C20, amended: as stated, except that a piece with a second "-" raises   *)
(* InvalidStepError only when the text right of the first "-" is not a tag *)
(* reference; when it is one, the further "-" is part of the tag's name,   *)
(* as in <1-@b-c>, or of its suffix, which is then an unknown suffix.      *)
(***************************************************************************)
C20_RangeParsingTagNames ==
    \A i \in Layers :
        (pc = "parse_build_specification" /\ IsOneBracket(layer_names[i])) =>
            /\ PiecesParse(layer_names[i])
            /\ Content(layer_names[i]) # <<>> =>
                  \A k \in 1..Len(Pieces(layer_names[i])) :
                      (/\ HasSecondDash(Pieces(layer_names[i])[k])
                       /\ \A j \in 1..(k - 1) :
                             ~IsParseError(parse_step_or_range(
                                               Pieces(layer_names[i])[j]))
                       /\ ~IsParseError(SideAtom(LeftOf(Pieces(layer_names[i])[k]),
                                                 Start))) =>
                          LET right == RightOf(Pieces(layer_names[i])[k])
                              spec == parse_build_specification(layer_names[i])
                          IN  IF right[1] = "@" /\ Len(right) > 1
                                 /\ \A c \in 2..Len(right) : right[c] \notin WhiteSpace
                              THEN spec.type \in {"list", "UnexpectedTagSuffixError"}
                              ELSE spec = InvalidStepError(right)

\* <->, <2->, <-3>, <1, 2-4> and < > parse to ranges with bounds for the
\* empty sides, an atom next to a range, and an empty spec
C20_Witness ==
    /\ pc = "done"
    /\ layer_names = PieceDeck
    /\ input_layer_specs =
           <<List(<<Range(Start, End)>>),
             List(<<Range(Numeric(2), End)>>),
             List(<<Range(Start, Numeric(3))>>),
             List(<<Numeric(1), Range(Numeric(2), Numeric(4))>>),
             List(<<>>)>>

\* The layer name with every <...> section removed, an empty <> included
RECURSIVE WithoutBrackets(_)
WithoutBrackets(name) ==
    LET opens == {k \in 1..Len(name) : name[k] = "<"}
        closes == {k \in 1..Len(name) : name[k] = ">" /\ opens # {}
                                        /\ k > MinOf(opens)}
    IN  IF opens = {} \/ closes = {} THEN name
        ELSE SubSeq(name, 1, MinOf(opens) - 1)
             \o WithoutBrackets(SubSeq(name, MinOf(closes) + 1, Len(name)))

\* The names of the @name tokens of a text: an @, then one or more
\* characters none of which is whitespace or one of < > . @, then
\* whitespace, another @ or the end of the text
Labels(text) ==
    {SubSeq(text, i + 1, q - 1) :
        <<i, q>> \in {iq \in (1..Len(text)) \X (1..(Len(text) + 1)) :
                        /\ text[iq[1]] = "@"
                        /\ iq[2] > iq[1] + 1
                        /\ \A k \in (iq[1] + 1)..(iq[2] - 1) :
                              text[k] \notin TagNameStop
                        /\ \/ iq[2] = Len(text) + 1
                           \/ text[iq[2]] \in WhiteSpace \cup {"@"}}}

(***************************************************************************)
(* C21: the labels of a layer are the names of the @name tokens of its     *)
(* name with every bracketed <...> section removed, an empty <> included:  *)
(* a reference inside a bracket is never a label, @foo@bar gives foo and   *)
(* bar, @foo.bar gives none.                                               *)
(***************************************************************************)
C21_LabelsOutsideBrackets ==
    pc = "resolve_autos" /\ s1_layer_specs = <<>> =>
        \A i \in Layers :
            layer_tags[i] = Labels(WithoutBrackets(layer_names[i]))

(***************************************************************************)
(* normalise_specs on any list of integers                                 *)
(*                                                                         *)
(* The call is entered at the normalising statement with one layer whose   *)
(* expanded steps are any list of at most MaxSteps integers between        *)
(* -MaxStepValue and MaxStepValue.                                         *)
(***************************************************************************)
MaxSteps == 4
MaxStepValue == 2

StepLists ==
    UNION {[1..n -> (0 - MaxStepValue)..MaxStepValue] : n \in 0..MaxSteps}

NormaliseInit ==
    \E steps \in StepLists :
        /\ NumberingIdle
        /\ layer_names = <<<<"<", ">">>>>
        /\ pc = "normalise_specs"
        /\ input_layer_specs = <<List(<<>>)>>
        /\ layer_tags = <<{}>>
        /\ last_number = 0
        /\ s1_layer_specs = <<<<>>>>
        /\ resolution_order = <<0>>
        /\ resolution_count = 1
        /\ resolved_specs = <<>>
        /\ resolved_tags = <<>>
        /\ s2_layer_specs = <<<<>>>>
        /\ s3_layer_specs = <<<<>>>>
        /\ s4_layer_specs = <<steps>>
        /\ layer_specs = <<>>
        /\ result = <<>>
        /\ exc = None

NormaliseNext == NormaliseSpecs \/ Return

NormaliseSpec == NormaliseInit /\ [][NormaliseNext]_vars

(***************************************************************************)
(* C22: normalising is idempotent: normalising the normalised list gives   *)
(* the normalised list again, for every list of integers.                  *)
(***************************************************************************)
C22_NormaliseIdempotent ==
    pc \in {"return", "done"} =>
        /\ normalise_specs(layer_specs) = layer_specs
        /\ normalise_specs(normalise_specs(s4_layer_specs))
               = normalise_specs(s4_layer_specs)

\* [2, 0, 2, -1] is normalised to [-1, 0, 2], which normalising leaves alone
C22_Witness ==
    /\ pc = "return"
    /\ s4_layer_specs = <<<<2, 0, 2, 0 - 1>>>>
    /\ layer_specs = <<<<0 - 1, 0, 2>>>>
    /\ normalise_specs(layer_specs) = layer_specs

(***************************************************************************)
(* file_numbering.py: picking a number for a file inserted into a numbered *)
(* sequence of files.  Python lists of int are sequences of integers.      *)
(***************************************************************************)
NoFreeNumberError == [type |-> "NoFreeNumberError"]
NegativeNumberError(numbers) == [type |-> "NegativeNumberError", arg |-> numbers]
IndexError(index) == [type |-> "IndexError", arg |-> index]

\* numbers == sorted(numbers) and len(set(numbers)) == len(numbers)
sanity_checks(numbers) ==
    \A i \in 1..(Len(numbers) - 1) : numbers[i] < numbers[i + 1]

reversed(seq) == [i \in 1..Len(seq) |-> seq[Len(seq) + 1 - i]]

negated(seq) == [i \in 1..Len(seq) |-> 0 - seq[i]]

\* seq[from:] with a 0-based from
slice_from(seq, from) == SubSeq(seq, from + 1, Len(seq))

\* seq[:to] with a 0-based to
slice_to(seq, to) == SubSeq(seq, 1, to)

\* the value returned, or the exception raised
try_insert_number(numbers, index, negative_allowed, step_size) ==
    IF index < 0 \/ index > Len(numbers) THEN IndexError(index)
    ELSE IF index = Len(numbers)
    THEN Numeric((IF numbers = <<>> THEN 0 ELSE MaxOf(SetOf(numbers)))
                 + step_size)
    ELSE IF ~negative_allowed /\ numbers[1] < 0
    THEN NegativeNumberError(numbers)
    ELSE IF index = 0 /\ (negative_allowed \/ numbers[1] < 0)
    THEN Numeric(numbers[1] - step_size)
    ELSE LET before == IF index = 0 THEN 0 - 1 ELSE At(numbers, index - 1)
             after == IF index = 0 THEN numbers[1] ELSE At(numbers, index)
         IN  IF after - before >= 2
             THEN Numeric(before + ((after - before) \div 2))
             ELSE NoFreeNumberError

\* the mutant divides by count, so that the last number may reach the end
evenly_spaced_numbers_between_reaching_end(first, last, count) ==
    [step \in 1..count |-> first + ((step * (last - first)) \div count)]

evenly_spaced_numbers_between(first, last, count) ==
    [step \in 1..count |-> first + ((step * (last - first)) \div (count + 1))]

squeeze_in_leading_number(numbers, step_size) ==
    LET \* the 0-based indices at which the loop would break
        gap_indices == {g \in 1..(Len(numbers) - 1) :
                            At(numbers, g) # At(numbers, g - 1) + 1}
    IN  IF gap_indices = {}
        THEN [i \in 1..(Len(numbers) + 1) |-> numbers[1] - 1 + (i * step_size)]
        ELSE LET gap_index == MinOf(gap_indices)
                 first == numbers[1] - 1
                 last == At(numbers, gap_index)
             IN  evenly_spaced_numbers_between(first, last, gap_index + 1)
                     \o slice_from(numbers, gap_index)

RECURSIVE gcd(_, _)
gcd(a, b) == IF b = 0 THEN a ELSE gcd(b, a % b)

\* exact fractions <<numerator, denominator>> in lowest terms
fraction(n, d) == LET g == gcd(n, d) IN <<n \div g, d \div g>>

fraction_add(x, y) ==
    LET d == (x[2] \div gcd(x[2], y[2])) * y[2]
    IN  fraction((x[1] * (d \div x[2])) + (y[1] * (d \div y[2])), d)

fraction_lt(x, y) ==
    LET d == (x[2] \div gcd(x[2], y[2])) * y[2]
    IN  x[1] * (d \div x[2]) < y[1] * (d \div y[2])

RECURSIVE spacing_score(_)
spacing_score(candidate_numbers) ==
    IF Len(candidate_numbers) < 2 THEN <<0, 1>>
    ELSE fraction_add(
             spacing_score(slice_to(candidate_numbers,
                                    Len(candidate_numbers) - 1)),
             fraction(1, candidate_numbers[Len(candidate_numbers)]
                         - candidate_numbers[Len(candidate_numbers) - 1]))

\* (num_renumberings, spacing_score), the spacing score as an exact fraction
score_candidate_numbering(previous_numbers, index, candidate_numbers) ==
    LET unchanged == slice_to(previous_numbers, index)
                         \o <<At(candidate_numbers, index)>>
                         \o slice_from(previous_numbers, index)
        num_renumberings ==
            Cardinality({i \in 1..Len(candidate_numbers) :
                             unchanged[i] # candidate_numbers[i]})
    IN  <<num_renumberings, spacing_score(candidate_numbers)>>

\* the candidates insert_number chooses between, in the order it lists them
candidate_renumberings(numbers, index, negative_allowed, step_size) ==
    LET after_candidate ==
            slice_to(numbers, index)
                \o squeeze_in_leading_number(slice_from(numbers, index),
                                             step_size)
        leading_numbers ==
            IF negative_allowed THEN slice_to(numbers, index)
            ELSE <<0 - 1>> \o slice_to(numbers, index)
        inverted_leading_numbers == negated(reversed(leading_numbers))
        inverted_candidate_leading_numbers ==
            squeeze_in_leading_number(inverted_leading_numbers, step_size)
        candidate_leading_numbers ==
            negated(reversed(inverted_candidate_leading_numbers))
    IN  IF negative_allowed
        THEN <<after_candidate,
               candidate_leading_numbers \o slice_from(numbers, index)>>
        ELSE IF Head(candidate_leading_numbers) # 0 - 1
        THEN <<after_candidate>>
        ELSE <<after_candidate,
               Tail(candidate_leading_numbers) \o slice_from(numbers, index)>>

\* min(candidate_renumberings, key=score): the candidates min may return.
\* The spacing scores are sums of floats: where the exact sums are equal the
\* rounded sums may compare either way, so either candidate may be returned.
least_disruptive(candidates, previous_numbers, index) ==
    IF Len(candidates) = 1 THEN {candidates[1]}
    ELSE LET a == score_candidate_numbering(previous_numbers, index,
                                            candidates[1])
             b == score_candidate_numbering(previous_numbers, index,
                                            candidates[2])
         IN  IF a[1] < b[1] THEN {candidates[1]}
             ELSE IF b[1] < a[1] THEN {candidates[2]}
             ELSE IF fraction_lt(a[2], b[2]) THEN {candidates[1]}
             ELSE IF fraction_lt(b[2], a[2]) THEN {candidates[2]}
             ELSE {candidates[1], candidates[2]}

changed_pairs(before_numbers, after_numbers) ==
    SelectSeq([i \in 1..Len(before_numbers) |->
                   <<before_numbers[i], after_numbers[i]>>],
              LAMBDA pair : pair[1] # pair[2])

renumbering_decrease(numbers, index, new_numbers) ==
    changed_pairs(slice_to(numbers, index), slice_to(new_numbers, index))

\* the mutant lists the increases lowest first
renumbering_increase_lowest_first(numbers, index, new_numbers) ==
    changed_pairs(slice_from(numbers, index),
                  slice_from(new_numbers, index + 1))

renumbering_increase(numbers, index, new_numbers) ==
    reversed(changed_pairs(slice_from(numbers, index),
                           slice_from(new_numbers, index + 1)))

(***************************************************************************)
(* insert_number and the renaming of the files it asks for                 *)
(***************************************************************************)
\* no evaluate_build_steps call is in progress
BuildsIdle ==
    /\ layer_names = <<>>
    /\ pc = "idle"
    /\ input_layer_specs = <<>>
    /\ layer_tags = <<>>
    /\ last_number = 0
    /\ s1_layer_specs = <<>>
    /\ resolution_order = <<>>
    /\ resolution_count = 0
    /\ resolved_specs = <<>>
    /\ resolved_tags = <<>>
    /\ s2_layer_specs = <<>>
    /\ s3_layer_specs = <<>>
    /\ s4_layer_specs = <<>>
    /\ layer_specs = <<>>
    /\ result = <<>>
    /\ exc = None

\* try_insert_number returned: return (new_number, [])
TryInsertNumberReturns ==
    /\ numbering_pc = "try_insert_number"
    /\ LET outcome == try_insert_number(existing_numbers, position,
                                        allow_negative, preferred_step_size)
       IN  /\ outcome.type = "int"
           /\ attempt' = outcome
           /\ inserted_number' = outcome.value
    /\ renumberings' = <<>>
    /\ numbering_pc' = "return"
    /\ UNCHANGED builds_vars
    /\ UNCHANGED <<existing_numbers, position, allow_negative,
                   preferred_step_size, files, renamed, collided>>

\* except NoFreeNumberError: pass
CatchNoFreeNumberError ==
    /\ numbering_pc = "try_insert_number"
    /\ LET outcome == try_insert_number(existing_numbers, position,
                                        allow_negative, preferred_step_size)
       IN  /\ outcome.type = "NoFreeNumberError"
           /\ attempt' = outcome
    /\ numbering_pc' = "renumber"
    /\ UNCHANGED builds_vars
    /\ UNCHANGED <<existing_numbers, position, allow_negative,
                   preferred_step_size, inserted_number, renumberings, files,
                   renamed, collided>>

\* any other exception of try_insert_number propagates
TryInsertNumberRaises ==
    /\ numbering_pc = "try_insert_number"
    /\ LET outcome == try_insert_number(existing_numbers, position,
                                        allow_negative, preferred_step_size)
       IN  /\ outcome.type \in {"NegativeNumberError", "IndexError"}
           /\ attempt' = outcome
    /\ numbering_pc' = "raised"
    /\ UNCHANGED builds_vars
    /\ UNCHANGED <<existing_numbers, position, allow_negative,
                   preferred_step_size, inserted_number, renumberings, files,
                   renamed, collided>>

\* the rest of insert_number: renumber the neighbours to make room
Renumber ==
    /\ numbering_pc = "renumber"
    /\ \E new_numbers \in
           least_disruptive(
               candidate_renumberings(existing_numbers, position,
                                      allow_negative, preferred_step_size),
               existing_numbers, position) :
           /\ inserted_number' = At(new_numbers, position)
           /\ renumberings' =
                  renumbering_decrease(existing_numbers, position, new_numbers)
                      \o renumbering_increase(existing_numbers, position,
                                              new_numbers)
    /\ numbering_pc' = "return"
    /\ UNCHANGED builds_vars
    /\ UNCHANGED <<existing_numbers, position, allow_negative,
                   preferred_step_size, attempt, files, renamed, collided>>

\* the caller performs the next renumbering operation of the list: the file
\* numbered old_number takes new_number, unless a file holds that number
Rename ==
    /\ numbering_pc = "return"
    /\ ~collided
    /\ renamed < Len(renumberings)
    /\ LET old_number == renumberings[renamed + 1][1]
           new_number == renumberings[renamed + 1][2]
       IN  IF new_number \in SetOf(files)
           THEN /\ collided' = TRUE
                /\ UNCHANGED <<files, renamed>>
           ELSE /\ files' = [i \in 1..Len(files) |->
                                 IF files[i] = old_number THEN new_number
                                 ELSE files[i]]
                /\ renamed' = renamed + 1
                /\ UNCHANGED collided
    /\ UNCHANGED builds_vars
    /\ UNCHANGED <<existing_numbers, position, allow_negative,
                   preferred_step_size, numbering_pc, attempt, inserted_number,
                   renumberings>>

MaxFiles == 4
MaxNumber == 5
MaxNegative == 2
DefaultStepSize == 100
StepSizes == {1, 2, DefaultStepSize}

\* the strictly increasing lists of at most MaxFiles numbers
NumberLists ==
    {numbers \in UNION {[1..n -> (0 - MaxNegative)..MaxNumber] :
                            n \in 0..MaxFiles} : sanity_checks(numbers)}

InsertNumberCalled(numbers, index, negative_allowed, step_size) ==
    /\ existing_numbers = numbers
    /\ position = index
    /\ allow_negative = negative_allowed
    /\ preferred_step_size = step_size
    /\ numbering_pc = "try_insert_number"
    /\ attempt = None
    /\ inserted_number = None
    /\ renumberings = <<>>
    /\ files = numbers
    /\ renamed = 0
    /\ collided = FALSE

NumberingInit ==
    /\ BuildsIdle
    /\ \E numbers \in NumberLists, negative_allowed \in BOOLEAN,
          step_size \in StepSizes :
           \E index \in 0..Len(numbers) :
               InsertNumberCalled(numbers, index, negative_allowed, step_size)

NumberingNext ==
    \/ TryInsertNumberReturns
    \/ CatchNoFreeNumberError
    \/ TryInsertNumberRaises
    \/ Renumber
    \/ Rename

NumberingSpec == NumberingInit /\ [][NumberingNext]_vars

(***************************************************************************)
(* Vocabulary of the properties of insert_number                           *)
(***************************************************************************)
\* the number a file numbered old_number has once every renumbering returned
\* is performed
NewNumberOf(old_number) ==
    LET pairs == {k \in 1..Len(renumberings) : renumberings[k][1] = old_number}
    IN  IF pairs = {} THEN old_number ELSE renumberings[MinOf(pairs)][2]

\* the numbers of the existing files, in their initial order, after the
\* renumberings
RenumberedFiles ==
    [i \in 1..Len(existing_numbers) |-> NewNumberOf(existing_numbers[i])]

HasNegative(numbers) == \E i \in 1..Len(numbers) : numbers[i] < 0

\* C23: insert_number places the new file at the requested position.  For
\* strictly increasing existing_numbers (non-negative when allow_negative is
\* False) and 0 <= position <= len(existing_numbers), once every old number
\* is replaced by its new number from the renumberings returned and
\* new_number is added, all numbers are distinct, the existing files keep
\* their relative order, and exactly `position` existing files have a number
\* below new_number.
C23_InsertedAtPosition ==
    /\ numbering_pc = "return"
    /\ sanity_checks(existing_numbers)
    /\ allow_negative \/ ~HasNegative(existing_numbers)
    /\ position \in 0..Len(existing_numbers)
    => /\ Cardinality(SetOf(RenumberedFiles) \cup {inserted_number})
              = Len(existing_numbers) + 1
       /\ \A i, j \in 1..Len(existing_numbers) :
              i < j => RenumberedFiles[i] < RenumberedFiles[j]
       /\ Cardinality({i \in 1..Len(existing_numbers) :
                           RenumberedFiles[i] < inserted_number}) = position

\* insert_number([0, 1, 2, 5], 1) makes room by moving 2 and then 1 up
C23_Witness ==
    /\ numbering_pc = "return"
    /\ existing_numbers = <<0, 1, 2, 5>>
    /\ position = 1
    /\ ~allow_negative
    /\ preferred_step_size = DefaultStepSize
    /\ renumberings = <<<<2, 3>>, <<1, 2>>>>
    /\ inserted_number = 1
    /\ RenumberedFiles = <<0, 2, 3, 5>>

\* C24: the order of the renumberings returned by insert_number ensures the
\* changes do not collide.  Performing the (old_number, new_number) pairs one
\* at a time in list order, starting from existing_numbers, the new number of
\* each step is never a number another file holds at that moment: the
\* decreases come first, lowest old number first, and the increases follow,
\* highest old number first.
C24_RenumberingsNeverCollide ==
    /\ ~collided
    /\ numbering_pc = "return" =>
           \E decreases \in 0..Len(renumberings) :
               /\ \A k \in 1..Len(renumberings) :
                      IF k <= decreases
                      THEN renumberings[k][2] < renumberings[k][1]
                      ELSE renumberings[k][2] > renumberings[k][1]
               /\ \A k \in 1..(Len(renumberings) - 1) :
                      /\ k < decreases
                         => renumberings[k][1] < renumberings[k + 1][1]
                      /\ k > decreases
                         => renumberings[k][1] > renumberings[k + 1][1]
    /\ renamed = Len(renumberings) /\ numbering_pc = "return"
           => files = RenumberedFiles

\* insert_number([0, 1, 2, 5], 1): 2 has moved to 3 and then 1 to 2, which
\* the other way round would have met the file numbered 2
C24_Witness ==
    /\ numbering_pc = "return"
    /\ existing_numbers = <<0, 1, 2, 5>>
    /\ position = 1
    /\ renumberings = <<<<2, 3>>, <<1, 2>>>>
    /\ renamed = 2
    /\ ~collided
    /\ files = <<0, 2, 3, 5>>

\* C25: with allow_negative False, try_insert_number raises
\* NegativeNumberError whenever existing_numbers contains a negative number,
\* for every valid position (appending at the end included), and never
\* returns a negative file number.
C25_NegativeNumbersRejected ==
    /\ numbering_pc # "try_insert_number"
    /\ ~allow_negative
    /\ position \in 0..Len(existing_numbers)
    => /\ HasNegative(existing_numbers)
              => attempt.type = "NegativeNumberError"
       /\ attempt.type = "int" => attempt.value >= 0

\* C26: the chain reported by a CyclicDependencyError is the loop itself.
\* Its first and last layer index are equal, the indices before the last are
\* pairwise distinct, and each index of the chain depends, through a tag it
\* references, on the index that follows it.  The chain is the part of the
\* depth-first path from the first occurrence of the repeated layer through
\* the repeat: [0, 1, 2, 0] for the three layers referencing one another in
\* a ring, [0, 0] for a layer referencing its own tag, and [1, 2, 3, 1] when
\* layer 0 only leads into the loop 1, 2, 3.
C26_ChainIsTheLoop ==
    pc = "raised" /\ exc.type = "CyclicDependencyError" =>
        LET chain == exc.layer_indices
        IN  /\ Len(chain) >= 2
            /\ chain[1] = chain[Len(chain)]
            /\ \A k, l \in 1..(Len(chain) - 1) : k # l => chain[k] # chain[l]
            /\ \A k \in 1..(Len(chain) - 1) :
                   /\ chain[k] \in Indices(layer_names)
                   /\ chain[k + 1] \in Indices(layer_names)
                   /\ DependsOn(chain[k] + 1, chain[k + 1] + 1)
            /\ layer_names = CycleDeck => chain = <<0, 1, 2, 0>>
            /\ layer_names = LoopEntryDeck => chain = <<1, 2, 3, 1>>
            /\ Len(layer_names) = 1 => chain = <<0, 0>>

\* layer 0 of LoopEntryDeck is walked first and is not part of the chain
C26_Witness ==
    /\ pc = "raised"
    /\ layer_names = LoopEntryDeck
    /\ exc.type = "CyclicDependencyError"
    /\ exc.layer_indices = <<1, 2, 3, 1>>
    /\ DependsOn(1, 2)

\* The place of layer i (1-based) in the resolution order
PlaceInOrder(i) ==
    MinOf({k \in 1..Len(resolution_order) : resolution_order[k] = i - 1})

\* C27: when compute_tag_resolution_order returns, the ordering is a
\* permutation of all layer indices 0..n-1 (every layer exactly once) in
\* which, for every layer i and every tag T referenced by i, every layer
\* carrying T comes before i.  So at the moment the tag references of a
\* layer are substituted, the pool of each tag it references already holds
\* the contribution of every layer carrying that tag.
C27_ResolutionOrder ==
    pc = "resolve_tags_loop" =>
        /\ Len(resolution_order) = Len(layer_names)
        /\ SetOf(resolution_order) = Indices(layer_names)
        /\ \A i \in Layers : \A T \in ReferencedTags(i) :
               \A j \in Carriers(T) : PlaceInOrder(j) < PlaceInOrder(i)
        /\ resolution_count < Len(resolution_order) =>
               LET i == resolution_order[resolution_count + 1] + 1
               IN  \A T \in ReferencedTags(i) : \A j \in Carriers(T) :
                       /\ (j - 1) \in DOMAIN resolved_specs
                       /\ SetOf(resolved_specs[j - 1])
                              \subseteq SetOf(Lookup(resolved_tags, T))

\* As in ["<.,@a>", "<+,3> @a", "<+,3> @a"]: the first layer is the last one
\* to be substituted, and the pool of a holds the steps of both its carriers
C27_Witness ==
    /\ pc = "resolve_tags_loop"
    /\ resolution_count = Len(resolution_order) - 1
    /\ \E i \in Layers :
           /\ i = resolution_order[resolution_count + 1] + 1
           /\ i < Len(layer_names)
           /\ \E T \in ReferencedTags(i) :
                  /\ Cardinality(Carriers(T)) = 2
                  /\ \A j \in Carriers(T) :
                         /\ j > i
                         /\ resolved_specs[j - 1] # <<>>
                         /\ SetOf(resolved_specs[j - 1])
                                \subseteq SetOf(Lookup(resolved_tags, T))

\* The kinds of atom (steps and range ends) found in the specs of a stage
AtomTypes(specs) ==
    {a.type : a \in UNION {AtomsOf(specs[i]) : i \in 1..Len(specs)}}

\* specs has one spec per layer, each with as many steps as in previous
SameShape(specs, previous) ==
    /\ Len(specs) = Len(previous)
    /\ \A i \in 1..Len(specs) : Len(specs[i]) = Len(previous[i])

\* C28: placeholders are eliminated stage by stage, for every deck that
\* parses and has no undefined tag or cycle.  No layer's spec contains + or .
\* after Stage 1 (neither at top level nor as a range end), none contains a
\* tag reference after Stage 2, none contains Start or End after Stage 3
\* (both ends of every range are integers), and none contains a range after
\* Stage 4; each stage returns one spec per layer, in the input order.
C28_PlaceholdersEliminated ==
    /\ pc = "resolve_tags" =>
           /\ AtomTypes(s1_layer_specs) \cap {"Plus", "Dot"} = {}
           /\ SameShape(s1_layer_specs,
                        [i \in Layers |-> EnteringSpec(i)])
    /\ pc = "resolve_bounds" =>
           /\ AtomTypes(s2_layer_specs) \subseteq {"int", "Start", "End"}
           /\ Len(s2_layer_specs) = Len(layer_names)
           /\ \A i \in Layers : s2_layer_specs[i] = resolved_specs[i - 1]
    /\ pc = "resolve_ranges" =>
           /\ AtomTypes(s3_layer_specs) \subseteq {"int"}
           /\ SameShape(s3_layer_specs, s2_layer_specs)
    /\ pc = "normalise_specs" =>
           /\ Len(s4_layer_specs) = Len(layer_names)
           /\ \A i \in Layers : \A k \in 1..Len(s4_layer_specs[i]) :
                  s4_layer_specs[i][k] \in Int
           /\ \A i \in Layers :
                  s4_layer_specs[i] = Expansion(s3_layer_specs[i])

\* a deck that entered with an automatic number, a tag reference and an
\* open-ended range has reached the end of Stage 4
C28_Witness ==
    /\ pc = "normalise_specs"
    /\ \E i, j, k \in Layers :
           /\ {a.type : a \in AtomsOf(EnteringSpec(i))} \cap {"Plus", "Dot"} # {}
           /\ {a.type : a \in AtomsOf(EnteringSpec(j))} \cap {"str", "tuple"} # {}
           /\ {a.type : a \in AtomsOf(EnteringSpec(k))} \cap {"Start", "End"} # {}
           /\ s4_layer_specs[i] # <<>>
           /\ s4_layer_specs[j] # <<>>
           /\ Len(s4_layer_specs[k]) > 1

\* The values Stage 3 substitutes for Start and End
ResolvedFirst == MinOf(BoundCandidates)
ResolvedLast == MaxOf(BoundCandidates)

\* C29: in every deck that resolves without error, every integer of every
\* layer's resolved step list (the internal list of a layer without a
\* bracket included) lies between the deck's resolved first step and
\* resolved last step, with first step <= 0 <= last step.  Consequently the
\* step list of a layer annotated <-> contains every step of every other
\* layer and always contains 0.
C29_StepsWithinBounds ==
    pc \in {"return", "done"} =>
        /\ ResolvedFirst <= 0
        /\ 0 <= ResolvedLast
        /\ \A i \in Layers : \A n \in SetOf(layer_specs[i]) :
               ResolvedFirst <= n /\ n <= ResolvedLast
        /\ \A i \in Layers :
               input_layer_specs[i] = List(<<Range(Start, End)>>) =>
                   /\ 0 \in SetOf(layer_specs[i])
                   /\ \A j \in Layers :
                          SetOf(layer_specs[j]) \subseteq SetOf(layer_specs[i])
                   /\ pc = "done" =>
                          /\ 0 \in SetOf(result[i].items)
                          /\ ReturnedSteps \subseteq SetOf(result[i].items)

\* ["<->", "<3>", "x"]: the <-> layer holds 0 and the step 3 of the second
\* layer, and so does the internal list of the layer without a bracket
C29_Witness ==
    /\ pc = "done"
    /\ Len(layer_names) = 3
    /\ input_layer_specs[1] = List(<<Range(Start, End)>>)
    /\ input_layer_specs[2] = List(<<Numeric(3)>>)
    /\ input_layer_specs[3] = None
    /\ result[1] = List(<<0, 1, 2, 3>>)
    /\ result[2] = List(<<3>>)
    /\ result[3] = None
    /\ layer_specs[3] = <<0, 1, 2, 3>>
    /\ ResolvedFirst = 0
    /\ ResolvedLast = 3

\* Some spec of the deck uses the .before suffix
UsesBefore ==
    \E i \in Layers :
        \E a \in AtomsOf(EnteringSpec(i)) :
            a.type = "tuple" /\ a.suffix = SuffixBefore

\* The values Stage 3 put where the tag-resolved specs hold Start
SubstitutedForStart ==
    UNION {UNION {IF s2_layer_specs[i][k].type = "Start"
                  THEN {s3_layer_specs[i][k].value}
                  ELSE IF s2_layer_specs[i][k].type = "Range"
                          /\ s2_layer_specs[i][k].start.type = "Start"
                  THEN {s3_layer_specs[i][k].start.value}
                  ELSE {} : k \in 1..Len(s2_layer_specs[i])} :
             i \in 1..Len(s2_layer_specs)}

\* C30: negative steps arise only from .before.  In a deck in which no spec
\* uses the .before suffix and which resolves without error, every integer
\* of every returned step list is >= 0 and the deck's resolved first step
\* (the value substituted for Start) is exactly 0; with .before applied to a
\* tag whose minimum is the integer 0 the result is -1 and the resolved
\* first step becomes negative.
C30_NegativeOnlyFromBefore ==
    pc = "done" =>
        /\ ~UsesBefore =>
               /\ \A n \in ReturnedSteps : n >= 0
               /\ \A i \in Layers : \A n \in SetOf(layer_specs[i]) : n >= 0
               /\ ResolvedFirst = 0
               /\ SubstitutedForStart \subseteq {0}
        /\ \A i \in Layers : \A T \in AllLabels :
               /\ input_layer_specs[i] = List(<<TagSuffix(T, SuffixBefore)>>)
               /\ PoolAtoms(T) # {}
               /\ Minimum(PoolAtoms(T)) = Numeric(0)
               => /\ result[i] = List(<<0 - 1>>)
                  /\ ResolvedFirst < 0
                  /\ \A n \in SubstitutedForStart : n < 0

\* ["<0> @a", "<@a.before>", "<->"] returns [0], [-1] and [-1, 0]
C30_Witness ==
    /\ pc = "done"
    /\ layer_names = BeforeZeroDeck
    /\ result = <<List(<<0>>), List(<<0 - 1>>), List(<<0 - 1, 0>>)>>
    /\ ResolvedFirst = 0 - 1
    /\ SubstitutedForStart = {0 - 1}

====
